---- MODULE Spec2Model ----
(***************************************************************************)
(* A model of the ink miner of src/miner/ink-miner.go: the block chain     *)
(* kept in the package variable blockChain, the mining loop of main, the   *)
(* art-node handlers (AddShape, GetInk) and the miner-to-miner handler     *)
(* SendBlockchain, which run as concurrent goroutines without any lock on  *)
(* blockChain.                                                             *)
(*                                                                         *)
(* Strings are sequences of tokens, concatenation is \o.  A token is a     *)
(* record [a, n, h]: a names the kind of text, n is its number and h is    *)
(* the text an MD5 token was computed from.  MD5 is modelled as an         *)
(* injective function (the token keeps its input); the digits of the hex   *)
(* string that the code inspects (its trailing zeros) are a fixed function *)
(* of the hashed text, StrWeight.                                          *)
(***************************************************************************)
EXTENDS Integers, Sequences, FiniteSets, TLC

\* ------------------------------------------------------------- bounds
MaxChain == 4          \* blocks the local chain may hold
MaxSent == 3           \* blocks a chain received by SendBlockchain may hold
MaxValidate == 1       \* largest ValidateNum an art node asks for
MaxDifficulty == 1     \* largest proof-of-work difficulty of the settings
MaxReward == 1         \* largest InkPerNoOpBlock of the settings
MaxHeartBeat == 3      \* largest HeartBeat of the settings, in milliseconds

\* ------------------------------------------------------------ strings
Tok(a, n, h) == [a |-> a, n |-> n, h |-> h]

Atom(a, n) == <<Tok(a, n, <<>>)>>

\* getPubKeyInStr(myPrivKey.PublicKey) for the package variable myPrivKey,
\* which main never assigns (main declares its own myPrivKey with :=):
\* X and Y are nil and the string is "<nil><nil>".
zeroPubKeyStr == Atom("key", 1)

\* myPubKeyStr of main: getPubKeyInStr of the key parsed from args[1].
myPubKeyStr == Atom("key", 2)

\* myKeyPairInString: args[1], the hex string of the miner's private key.
myKeyPairInString == Atom("key", 3)

\* The key strings art nodes send as ArtNodePK.
ArtNodeKeys == {Atom("key", 4), Atom("key", 5)}

\* A key string of another miner (PubKeyMiner of blocks in received chains).
peerKeyPairInString == Atom("key", 6)

\* The key string of a second other miner.
rivalKeyPairInString == Atom("key", 7)

\* strconv.FormatInt(j, 10) and its inverse strconv.ParseUint(s, 10, 32).
FormatInt(j) == Atom("dec", j)

ParseUint(s) == IF Len(s) = 1 /\ s[1].a = "dec" THEN s[1].n ELSE 0

\* string(b.Index): the one-rune string of code point Index.
RuneString(i) == Atom("rune", i)

RECURSIVE StrWeight(_)
\* The value of the low hex digits of MD5(s), as a function of the text s.
StrWeight(s) ==
  IF s = <<>> THEN 0
  ELSE (Head(s).n + 3 * StrWeight(Head(s).h) + StrWeight(Tail(s))) % 16

\* computeNonceSecretHash(nonce, secret): hex(md5(nonce + secret)).
computeNonceSecretHash(nonce, secret) == <<Tok("md5", 0, nonce \o secret)>>

\* The number of "0" characters the string ends with (capped at 2).
TrailingZeros(hash) ==
  IF hash = <<>> \/ hash[Len(hash)].a # "md5" THEN 0
  ELSE LET d == StrWeight(hash[Len(hash)].h)
       IN  IF d % 4 = 0 THEN 2 ELSE IF d % 2 = 0 THEN 1 ELSE 0

\* hasNZeros(hash, n): strings.HasSuffix(hash, strings.Repeat("0", n)).
hasNZeros(hash, n) == TrailingZeros(hash) >= n

\* The rank of a hash string in the byte-lexicographic order of hex strings.
HexRank(hash) ==
  IF hash = <<>> THEN 0 ELSE (5 * StrWeight(hash[Len(hash)].h) + 3) % 16

\* ------------------------------------------------------------- blocks
RECURSIVE convertOpToString(_)
convertOpToString(ops) ==
  IF ops = <<>> THEN <<>>
  ELSE Head(ops).AppShape \o Head(ops).OpSig \o Head(ops).PubKeyArtNode
         \o convertOpToString(Tail(ops))

blkToString(b) ==
  b.PrevHash \o convertOpToString(b.Ops) \o b.PubKeyMiner \o RuneString(b.Index)

RECURSIVE calculateHashFrom(_, _, _)
\* The loop of calculateHash from nonce j on.
calculateHashFrom(blockString, powDifficulty, j) ==
  LET nonce == FormatInt(j)
      hash == computeNonceSecretHash(blockString, nonce)
  IN  IF hasNZeros(hash, powDifficulty)
      THEN [hash |-> hash, nonce |-> nonce]
      ELSE calculateHashFrom(blockString, powDifficulty, j + 1)

\* calculateHash(b, powDifficulty): the first nonce from 0 whose hash has the
\* zeros, and that hash.  b.Nonce is not read.
calculateHash(b, powDifficulty) == calculateHashFrom(blkToString(b), powDifficulty, 0)

\* ----------------------------------------------------------- Go maps
EmptyMap == [x \in {} |-> 0]

MapPut(m, k, v) == [x \in (DOMAIN m) \cup {k} |-> IF x = k THEN v ELSE m[x]]

InkAccount(mined, spent, remain) ==
  [inkMined |-> mined, inkSpent |-> spent, inkRemain |-> remain]

\* m[k] of a map[string]InkAccount: the zero InkAccount for a missing key.
InkGet(m, k) == IF k \in DOMAIN m THEN m[k] ELSE InkAccount(0, 0, 0)

\* m[k] of a map[string][]string: nil for a missing key.
OpsGet(m, k) == IF k \in DOMAIN m THEN m[k] ELSE <<>>

VARIABLES
  settings,      \* the MinerNetSettings the registry replied with
  blockChain,    \* the package variable blockChain
  store,         \* the Go maps blocks point to: ref -> the three maps
  currInkMined,  \* the package variable currInkMined
  mainPc, mainBlk, mainSnap,   \* the mining loop of main and its temporaries
  asPc, asArgs, asLocal, asErr,   \* the AddShape handler and the error it last returned
  sbPc, sbArg, sbErr,          \* the SendBlockchain handler
  peerChains,    \* the chains peers may send
  crashed,       \* the process died of a run-time panic
  canvas,        \* the art node: the call it has made and what came back
  hmPc, hmErr,   \* handleMiner for the connected peer and the error of its last Call
  peerHeard,     \* the chains the peer's SendBlockchain handler was invoked with
  minersConnectedTo,   \* the package variable minersConnectedTo of each miner
  netPc,         \* the goroutines of each miner that work on its peer table
  registry       \* the registry server and the miner's last call to it

\* The state of the peer network: the peer tables, the goroutines that work
\* on them and the registry server.
netVars == <<minersConnectedTo, netPc, registry>>

vars == <<settings, blockChain, store, currInkMined, mainPc, mainBlk, mainSnap,
          asPc, asArgs, asLocal, asErr, sbPc, sbArg, sbErr, peerChains, crashed,
          canvas, hmPc, hmErr, peerHeard, minersConnectedTo, netPc, registry>>

\* ------------------------------------------------------------- store
\* Block{...}: the maps of a block are Go references; ref names the maps the
\* block points to, so that blocks built from one another share them.
Block(prevHash, nonce, ops, noOp, pubKeyMiner, index, ref) ==
  [PrevHash |-> prevHash, Nonce |-> nonce, Ops |-> ops, NoOpBlock |-> noOp,
   PubKeyMiner |-> pubKeyMiner, Index |-> index, ref |-> ref]

Maps(mInks, cInks, cOps) ==
  [MinerInks |-> mInks, CanvasInks |-> cInks, CanvasOperations |-> cOps]

\* make(map...): the smallest name no live map has.
NewRef(st) ==
  CHOOSE r \in 1..(Cardinality(DOMAIN st) + 1) :
    r \notin DOMAIN st /\ \A q \in 1..(r - 1) : q \in DOMAIN st

Refs(blocks) == {blocks[i].ref : i \in DOMAIN blocks}

\* The garbage collector: maps no block points to are gone.
Collect(st, live) == [r \in (DOMAIN st) \cap live |-> st[r]]

MinerInksOf(st, b) == st[b.ref].MinerInks

\* ------------------------------------------------------------- mining
generateFirstBlock(st) ==
  LET mInks == MapPut(EmptyMap, zeroPubKeyStr,
                      InkAccount(settings.InkPerNoOpBlock, 0, settings.InkPerNoOpBlock))
      ref == NewRef(st)
  IN  [blk |-> Block(settings.GenesisBlockHash, 0, <<>>, TRUE, zeroPubKeyStr, 1, ref),
       store |-> MapPut(st, ref, Maps(mInks, EmptyMap, EmptyMap))]

generateNoOpBlock(chain, st, minerPubKey) ==
  IF Len(chain) < 1 THEN generateFirstBlock(st)
  ELSE
    LET lastBlk == chain[Len(chain)]
        difficulty == IF lastBlk.NoOpBlock THEN settings.PoWDifficultyNoOpBlock
                      ELSE settings.PoWDifficultyOpBlock
        lastBlkHash == calculateHash(lastBlk, difficulty).hash
        blk == Block(lastBlkHash, 0, <<>>, TRUE, zeroPubKeyStr, 1, lastBlk.ref)
        oldMinerInks == MinerInksOf(st, lastBlk)
        myInkAccount == InkGet(oldMinerInks, minerPubKey)
        newMinerInks ==
          IF minerPubKey \in DOMAIN oldMinerInks
          THEN MapPut(oldMinerInks, minerPubKey,
                      InkAccount(myInkAccount.inkMined + settings.InkPerNoOpBlock,
                                 myInkAccount.inkSpent,
                                 myInkAccount.inkRemain + settings.InkPerNoOpBlock))
          ELSE MapPut(oldMinerInks, minerPubKey,
                      InkAccount(settings.InkPerNoOpBlock, 0, settings.InkPerNoOpBlock))
        currNonce == calculateHash(blk, settings.PoWDifficultyNoOpBlock).nonce
    IN  [blk |-> [blk EXCEPT !.Nonce = ParseUint(currNonce)],
         \* oldMinerInks[minerPubKey] = ... writes the map lastBlk points to
         store |-> [st EXCEPT ![lastBlk.ref].MinerInks = newMinerInks]]

\* Blocks built and not yet appended.
Pending == Len(mainBlk) + (IF asPc = "append" THEN 1 ELSE 0)

\* The length the chain has once a chain being adopted is assigned.
Horizon ==
  IF sbPc = "assign" /\ Len(sbArg) > Len(blockChain) THEN Len(sbArg)
  ELSE Len(blockChain)

\* The blocks a run is followed to.
ChainLimit == MaxChain

LiveRefs(chain, mblk, msnap, local) ==
  Refs(chain) \cup Refs(mblk) \cup Refs(local)
    \cup (IF msnap = <<>> THEN {} ELSE Refs(msnap[1]))

\* main, lines 309-316: mineNoOpBlocks evaluates generateNoOpBlock(minerPubKey);
\* Go leaves open whether the operand blockChain of append is read before the
\* call (early) or after it.
MainGenerate ==
  /\ ~crashed /\ mainPc = "sleep"
  /\ Horizon + Pending < ChainLimit
  /\ \E early \in BOOLEAN :
       LET g == generateNoOpBlock(blockChain, store, myPubKeyStr)
       IN  /\ mainBlk' = <<g.blk>>
           /\ mainSnap' = IF early THEN <<blockChain>> ELSE <<>>
           /\ store' = g.store
  /\ mainPc' = "append"
  /\ UNCHANGED <<netVars, canvas, hmPc, hmErr, peerHeard, settings, blockChain, currInkMined, asPc, asArgs, asLocal, asErr,
                 sbPc, sbArg, sbErr, peerChains, crashed>>

\* mineNoOpBlocks, line 329: blockChain = append(blockChain, <the block>).
MainAppend ==
  /\ ~crashed /\ mainPc = "append"
  /\ LET base == IF mainSnap = <<>> THEN blockChain ELSE mainSnap[1]
         chain == Append(base, mainBlk[1])
     IN  /\ blockChain' = chain
         /\ store' = Collect(store, LiveRefs(chain, <<>>, <<>>, asLocal.newBlock))
  /\ mainBlk' = <<>> /\ mainSnap' = <<>>
  /\ mainPc' = "record"
  /\ UNCHANGED <<netVars, canvas, hmPc, hmErr, peerHeard, settings, currInkMined, asPc, asArgs, asLocal, asErr,
                 sbPc, sbArg, sbErr, peerChains, crashed>>

\* main, lines 317-323: currInkMined = blockChain[lastOne].MinerInks[myPubKeyStr].inkMined.
MainRecord ==
  /\ ~crashed /\ mainPc = "record"
  /\ LET lastOne == Len(blockChain) - 1
     IN  currInkMined' =
           InkGet(MinerInksOf(store, blockChain[lastOne + 1]), myPubKeyStr).inkMined
  /\ mainPc' = "sleep"
  /\ UNCHANGED <<netVars, canvas, hmPc, hmErr, peerHeard, settings, blockChain, store, mainBlk, mainSnap, asPc, asArgs, asLocal,
                 asErr, sbPc, sbArg, sbErr, peerChains, crashed>>

\* -------------------------------------------------------- shape helper
\* The paths art nodes send: 0 is a path the grammar rejects, s > 0 a shape.
MaxShape == 1

Paths == 0..MaxShape

\* The ink a shape costs and the pixels it covers.
ShapeCost(s) == s

ShapePixels(s) == 1..s

\* SvgHelper.AddShapeToMap(svgString, owner, fill, remainInk, previousMap):
\* the ink spent and the error; it counts the shape into previousMap.
AddShapeToMap(path, owner, remainInk, previousMap) ==
  LET taken(p) == p \in DOMAIN previousMap /\ previousMap[p].n > 0
      overlap == \E p \in ShapePixels(path) : taken(p) /\ previousMap[p].minerPubKey # owner
      added == [p \in (DOMAIN previousMap) \cup ShapePixels(path) |->
                 IF p \in ShapePixels(path)
                 THEN [n |-> (IF taken(p) THEN previousMap[p].n ELSE 0) + 1,
                       minerPubKey |-> owner]
                 ELSE previousMap[p]]
  IN  IF path = 0
      THEN [spentInk |-> 0, err |-> "InvalidShapeSvgStringError", map |-> previousMap]
      ELSE IF overlap
      THEN [spentInk |-> 0, err |-> "ShapeOverlapError", map |-> previousMap]
      ELSE IF ShapeCost(path) > remainInk
      THEN [spentInk |-> 0, err |-> "InsufficientInkError", map |-> previousMap]
      ELSE [spentInk |-> ShapeCost(path), err |-> "nil", map |-> added]

\* ---------------------------------------------------- ink of a chain
\* shapeInkCost(shapeSVG): the same cost for every operation.
shapeInkCost(shapeSVG) == 30

RECURSIVE costOfOperations(_)
costOfOperations(ops) ==
  IF ops = <<>> THEN 0
  ELSE shapeInkCost(Head(ops).AppShape) + costOfOperations(Tail(ops))

RECURSIVE totalInkSpentAndMinedByMiner(_, _)
totalInkSpentAndMinedByMiner(bc, miner) ==
  IF bc = <<>> THEN [inkSpent |-> 0, inkMined |-> 0]
  ELSE LET rest == totalInkSpentAndMinedByMiner(SubSeq(bc, 1, Len(bc) - 1), miner)
           blk == bc[Len(bc)]
       IN  IF miner = blk.PubKeyMiner
           THEN [inkSpent |-> rest.inkSpent + costOfOperations(blk.Ops),
                 inkMined |-> rest.inkMined +
                   (IF blk.NoOpBlock THEN settings.InkPerNoOpBlock
                    ELSE settings.InkPerOpBlock)]
           ELSE rest

\* ------------------------------------------------------ art-node RPCs
\* minerInkRemain(): what GetInk replies to the miner's own key.
minerInkRemain == IF Len(blockChain) = 0 THEN 0 ELSE currInkMined

\* A reply that comes with InvalidMinerPKError(minerprivatekey): the error and
\* the key it carries.
InvalidMinerPKError(reply, key) ==
  [reply |-> reply, err |-> "InvalidMinerPKError", errKey |-> key]

\* GetInk(minerprivatekey).
GetInk(minerprivatekey) ==
  IF myKeyPairInString = minerprivatekey
  THEN [reply |-> minerInkRemain, err |-> "nil"]
  ELSE InvalidMinerPKError(0, minerprivatekey)

\* The ValidMiner of a Connect that failed: MinerNetSets is the zero value.
NoSettings == <<>>

\* Connect that compares the key with the miner's public key string.
ConnectByPubKey(minerprivatekey) ==
  IF myPubKeyStr = minerprivatekey
  THEN [reply |-> [MinerNetSets |-> settings, Valid |-> TRUE], err |-> "nil"]
  ELSE InvalidMinerPKError([MinerNetSets |-> NoSettings, Valid |-> FALSE],
                           minerprivatekey)

\* Connect(minerprivatekey), lines 696-710.
Connect(minerprivatekey) ==
  IF myKeyPairInString = minerprivatekey
  THEN [reply |-> [MinerNetSets |-> settings, Valid |-> TRUE], err |-> "nil"]
  ELSE InvalidMinerPKError([MinerNetSets |-> NoSettings, Valid |-> FALSE],
                           minerprivatekey)

SvgStr(path) == Atom("svg", path)

NoLocal ==
  [newBlock |-> <<>>, lastOne |-> 0, shapeHash |-> <<>>, blockHash |-> <<>>,
   currentInkRemain |-> 0]

NoArgs == [ValidateNum |-> 0, ShapeSvgString |-> 0, ArtNodePK |-> <<>>]

\* The AddShapeReply of a call that is returning.
AddShapeReply ==
  [ShapeHash |-> asLocal.shapeHash, BlockHash |-> asLocal.blockHash,
   InkRemaining |-> asLocal.currentInkRemain]

\* AddShape, lines 737-790: everything up to the block being built.
AddShapeBuild(args) ==
  LET svgStr == SvgStr(args.ShapeSvgString)
      remainInk == minerInkRemain
      lastBlk == blockChain[Len(blockChain)]
      previousMap == store[lastBlk.ref].CanvasInks
      helped == AddShapeToMap(args.ShapeSvgString, args.ArtNodePK, remainInk, previousMap)
      spentInk == helped.spentInk
      currentInkRemain == remainInk - spentInk
      pkStr == zeroPubKeyStr
      shapeHash == computeNonceSecretHash(svgStr, pkStr)
      newOp == [AppShape |-> svgStr, OpSig |-> shapeHash, PubKeyArtNode |-> args.ArtNodePK]
      lastOne == Len(blockChain) - 1
      preHash == calculateHash(blockChain[lastOne + 1], settings.PoWDifficultyOpBlock).hash
      newOps == Append(blockChain[lastOne + 1].Ops, newOp)
      mInks == store[lastBlk.ref].MinerInks
      total == totalInkSpentAndMinedByMiner(blockChain, pkStr)
      incAcc == InkAccount(total.inkMined, spentInk + total.inkSpent, currentInkRemain)
      canvOps == store[lastBlk.ref].CanvasOperations
      myOps == Append(OpsGet(canvOps, myKeyPairInString),
                      svgStr \o Atom(":", 0) \o shapeHash)
      newBlock == Block(preHash, 0, newOps, FALSE, myKeyPairInString, lastOne + 1,
                        lastBlk.ref)
      found == calculateHash(newBlock, settings.PoWDifficultyOpBlock)
  IN  [err |-> helped.err,
       local |-> [newBlock |-> <<[newBlock EXCEPT !.Nonce = ParseUint(found.nonce)]>>,
                  lastOne |-> lastOne, shapeHash |-> shapeHash,
                  blockHash |-> found.hash, currentInkRemain |-> currentInkRemain],
       \* mInks[myKeyPairInString] = incAcc and canvOps[myKeyPairInString] = myOps
       \* write the maps the last block points to
       store |-> [store EXCEPT ![lastBlk.ref] =
                    Maps(MapPut(mInks, myKeyPairInString, incAcc), helped.map,
                         MapPut(canvOps, myKeyPairInString, myOps))]]

\* AddShape called while blockChain is empty: blockChain[-1] panics (line 742).
AddShapePanic ==
  /\ ~crashed /\ asPc = "idle" /\ Len(blockChain) = 0
  /\ crashed' = TRUE
  /\ UNCHANGED <<netVars, canvas, hmPc, hmErr, peerHeard, settings, blockChain, store, currInkMined, mainPc, mainBlk, mainSnap,
                 asPc, asArgs, asLocal, asErr, sbPc, sbArg, sbErr, peerChains>>

\* AddShapeFail with the writes of lines 771-784 done before the error is
\* returned.
AddShapeFailAfterWrites ==
  /\ ~crashed /\ asPc = "idle" /\ Len(blockChain) > 0
  /\ \E path \in Paths, pk \in ArtNodeKeys :
       LET args == [ValidateNum |-> 0, ShapeSvgString |-> path, ArtNodePK |-> pk]
           built == AddShapeBuild(args)
       IN  /\ built.err # "nil"
           /\ asErr' = built.err
           /\ store' = built.store
  /\ asPc' = "failed"
  /\ UNCHANGED <<netVars, canvas, hmPc, hmErr, peerHeard, settings, blockChain, currInkMined, mainPc, mainBlk, mainSnap,
                 asArgs, asLocal, sbPc, sbArg, sbErr, peerChains, crashed>>

\* AddShape, lines 737-752: the helper refused the shape and its error is
\* what the call returns.
AddShapeFail ==
  /\ ~crashed /\ asPc = "idle" /\ Len(blockChain) > 0
  /\ \E path \in Paths, pk \in ArtNodeKeys :
       LET args == [ValidateNum |-> 0, ShapeSvgString |-> path, ArtNodePK |-> pk]
           built == AddShapeBuild(args)
       IN  /\ built.err # "nil"
           /\ asErr' = built.err
  /\ asPc' = "failed"
  /\ UNCHANGED <<netVars, canvas, hmPc, hmErr, peerHeard, settings, blockChain, store, currInkMined, mainPc, mainBlk, mainSnap,
                 asArgs, asLocal, sbPc, sbArg, sbErr, peerChains, crashed>>

\* The art node has the error; the handler is free for the next call.
AddShapeFailed ==
  /\ ~crashed /\ asPc = "failed"
  /\ asPc' = "idle" /\ asErr' = "none"
  /\ UNCHANGED <<netVars, canvas, hmPc, hmErr, peerHeard, settings, blockChain, store, currInkMined, mainPc, mainBlk, mainSnap,
                 asArgs, asLocal, sbPc, sbArg, sbErr, peerChains, crashed>>

\* AddShape, lines 737-790, for a shape the helper accepts.
AddShapeCall ==
  /\ ~crashed /\ asPc = "idle" /\ Len(blockChain) > 0
  /\ Horizon + Pending < ChainLimit
  /\ \E path \in Paths, pk \in ArtNodeKeys, num \in 0..MaxValidate :
       LET args == [ValidateNum |-> num, ShapeSvgString |-> path, ArtNodePK |-> pk]
           built == AddShapeBuild(args)
       IN  /\ built.err = "nil"
           /\ asArgs' = args
           /\ asLocal' = built.local
           /\ store' = built.store
  /\ asPc' = "append"
  /\ UNCHANGED <<netVars, canvas, hmPc, hmErr, peerHeard, settings, blockChain, currInkMined, mainPc, mainBlk, mainSnap,
                 asErr, sbPc, sbArg, sbErr, peerChains, crashed>>

\* AddShape, line 791: blockChain = append(blockChain, newBlock).
AddShapeAppend ==
  /\ ~crashed /\ asPc = "append"
  /\ blockChain' = Append(blockChain, asLocal.newBlock[1])
  /\ asLocal' = [asLocal EXCEPT !.newBlock = <<>>]
  /\ asPc' = "wait"
  /\ UNCHANGED <<netVars, canvas, hmPc, hmErr, peerHeard, settings, store, currInkMined, mainPc, mainBlk, mainSnap, asArgs,
                 asErr, sbPc, sbArg, sbErr, peerChains, crashed>>

\* AddShape, lines 794-802: leave the loop once last > lastOne + ValidateNum, reply.
AddShapeReturn ==
  /\ ~crashed /\ asPc = "wait"
  /\ LET last == Len(blockChain) - 1
     IN  last > asLocal.lastOne + asArgs.ValidateNum
  /\ asPc' = "idle" /\ asArgs' = NoArgs /\ asLocal' = NoLocal
  /\ UNCHANGED <<netVars, canvas, hmPc, hmErr, peerHeard, settings, blockChain, store, currInkMined, mainPc, mainBlk, mainSnap,
                 asErr, sbPc, sbArg, sbErr, peerChains, crashed>>

\* --------------------------------------- art-node RPCs that only read
\* The position of the first operation whose OpSig is shapeHash, 0 for none
\* (the loops of GetSvgString and DeleteShape).
FirstOpWith(operations, shapeHash) ==
  IF \E i \in DOMAIN operations : operations[i].OpSig = shapeHash
  THEN CHOOSE i \in DOMAIN operations :
         /\ operations[i].OpSig = shapeHash
         /\ \A j \in 1..(i - 1) : operations[j].OpSig # shapeHash
  ELSE 0

\* GetSvgString(shapeHash), lines 805-816, on a chain that is not empty.
GetSvgString(shapeHash) ==
  LET lastOne == Len(blockChain) - 1
      operations == blockChain[lastOne + 1].Ops
      i == FirstOpWith(operations, shapeHash)
  IN  IF i > 0 THEN [svgString |-> operations[i].AppShape, err |-> "nil"]
      ELSE [svgString |-> <<>>, err |-> "InvalidShapeHashError"]

\* DelShapeArgs{validateNum, shapeHash, ArtNodePK}.
DelShapeArgs(validateNum, shapeHash, artNodePK) ==
  [validateNum |-> validateNum, shapeHash |-> shapeHash, ArtNodePK |-> artNodePK]

\* DeleteShape(args), lines 818-880: nothing is written.
DeleteShape(args) ==
  LET lastOne == Len(blockChain) - 1
      operations == blockChain[lastOne + 1].Ops
      i == FirstOpWith(operations, args.shapeHash)
      ink == InkGet(MinerInksOf(store, blockChain[lastOne + 1]), myKeyPairInString)
  IN  IF lastOne < 0 THEN [inkRemaining |-> 0, err |-> "InvalidShapeHashError"]
      ELSE IF i = 0 THEN [inkRemaining |-> 0, err |-> "InvalidShapeHashError"]
      ELSE IF args.ArtNodePK = operations[i].PubKeyArtNode
      THEN [inkRemaining |-> ink.inkRemain, err |-> "nil"]
      ELSE [inkRemaining |-> 0, err |-> "ShapeOwnerError"]

\* CloseCanvas(args), lines 947-959: the CloseCanvReply.
CloseCanvas ==
  LET lastOne == Len(blockChain) - 1
      ink == InkGet(MinerInksOf(store, blockChain[lastOne + 1]), myKeyPairInString)
  IN  IF lastOne < 0 THEN [Ops |-> <<>>, inkRemaining |-> 0]
      ELSE [Ops |-> blockChain[lastOne + 1].Ops, inkRemaining |-> ink.inkRemain]

\* ------------------------------------------------ blockartlib.MyCanvas
\* encoding/gob carries the exported fields of a struct only: of DelShapeArgs
\* that is ArtNodePK, of CloseCanvReply it is Ops.
GobDelShapeArgs(args) == DelShapeArgs(0, <<>>, args.ArtNodePK)

GobCloseCanvReply(reply) == [Ops |-> reply.Ops, inkRemaining |-> 0]

\* The art node has no call under way.
NoCall == [fn |-> "none"]

\* fill and stroke as the art node passes them.
Colours == {"transparent", "red"}

\* What MyCanvas.AddShape returns: its named results shapeHash, blockHash and
\* inkRemaining are never assigned (line 318), err is the error of the call.
MyCanvasAddShapeResult(reply, err) ==
  [shapeHash |-> <<>>, blockHash |-> <<>>, inkRemaining |-> 0, err |-> err]

\* The AddShapeStruct MyCanvas.AddShape sends (line 314).
MyCanvasAddShapeArgs(validateNum, shapeSvgString, artPKStr) ==
  [ValidateNum |-> 1, ShapeSvgString |-> shapeSvgString, ArtNodePK |-> artPKStr]

\* The longest shapeSvgString MyCanvas.AddShape lets through, in bytes (line 300).
MaxSvgLen == 128

\* The lengths of the paths art nodes pass: the longest allowed and one more.
SvgLens == {MaxSvgLen, MaxSvgLen + 1}

\* MyCanvasAddShapeChecks with the test of line 300 written >= instead of >.
MyCanvasAddShapeChecksFrom128(bytes, fill, stroke) ==
  IF bytes >= MaxSvgLen THEN "ShapeSvgStringTooLongError"
  ELSE IF stroke = fill /\ fill = "transparent" THEN "InvalidShapeSvgStringError"
  ELSE "nil"

\* MyCanvasAddShapeChecks without the test of line 303.
MyCanvasAddShapeChecksLength(bytes, fill, stroke) ==
  IF bytes > MaxSvgLen THEN "ShapeSvgStringTooLongError" ELSE "nil"

\* MyCanvas.AddShape, lines 300-306: the error with which the library turns a
\* shape down itself, "nil" if it sends the shape to the miner.
MyCanvasAddShapeChecks(bytes, fill, stroke) ==
  IF bytes > MaxSvgLen THEN "ShapeSvgStringTooLongError"
  ELSE IF stroke = fill /\ fill = "transparent" THEN "InvalidShapeSvgStringError"
  ELSE "nil"

\* The call of MyCanvas.AddShape the art node has under way.
AddShapeCanvas(pc, validateNum, bytes, fill, stroke, out) ==
  [fn |-> "AddShape", pc |-> pc, validateNum |-> validateNum, bytes |-> bytes,
   fill |-> fill, stroke |-> stroke, out |-> out]

\* MyCanvas.AddShape, lines 300-306: the library turns the shape down itself.
MyCanvasAddShapeRefuse ==
  /\ ~crashed /\ canvas = NoCall
  /\ \E validateNum \in 0..MaxValidate, bytes \in SvgLens, fill \in Colours,
        stroke \in Colours :
       LET err == MyCanvasAddShapeChecks(bytes, fill, stroke)
       IN  /\ err # "nil"
           /\ canvas' = AddShapeCanvas("done", validateNum, bytes, fill, stroke,
                                       MyCanvasAddShapeResult(NoLocal, err))
  /\ UNCHANGED <<netVars, hmPc, hmErr, peerHeard, settings, blockChain, store, currInkMined,
                 mainPc, mainBlk, mainSnap, asPc, asArgs, asLocal, asErr,
                 sbPc, sbArg, sbErr, peerChains, crashed>>

\* MyCanvas.AddShape, lines 313-318, and AddShape of the miner up to the block
\* being built (lines 737-790).
MyCanvasAddShapeCall ==
  /\ ~crashed /\ canvas = NoCall /\ asPc = "idle" /\ Len(blockChain) > 0
  /\ Horizon + Pending + 1 < ChainLimit
  /\ \E validateNum \in 0..MaxValidate, path \in Paths, artPKStr \in ArtNodeKeys,
        bytes \in SvgLens, fill \in Colours, stroke \in Colours :
       LET args == MyCanvasAddShapeArgs(validateNum, path, artPKStr)
           built == AddShapeBuild(args)
       IN  /\ MyCanvasAddShapeChecks(bytes, fill, stroke) = "nil"
           /\ IF built.err = "nil"
              THEN /\ asArgs' = args /\ asLocal' = built.local /\ store' = built.store
                   /\ asPc' = "append"
                   /\ canvas' = AddShapeCanvas("called", validateNum, bytes, fill,
                                               stroke, <<>>)
              ELSE /\ UNCHANGED <<netVars, asArgs, asLocal, store, asPc>>
                   /\ canvas' = AddShapeCanvas("done", validateNum, bytes, fill, stroke,
                                               MyCanvasAddShapeResult(NoLocal, built.err))
  /\ UNCHANGED <<netVars, hmPc, hmErr, peerHeard, settings, blockChain, currInkMined,
                 mainPc, mainBlk, mainSnap, asErr, sbPc, sbArg, sbErr, peerChains,
                 crashed>>

\* AddShape of the miner, lines 794-802, and MyCanvas.AddShape, lines 316-318.
MyCanvasAddShapeReturn ==
  /\ ~crashed /\ asPc = "wait" /\ canvas.fn = "AddShape" /\ canvas.pc = "called"
  /\ LET last == Len(blockChain) - 1
     IN  last > asLocal.lastOne + asArgs.ValidateNum
  /\ asPc' = "idle" /\ asArgs' = NoArgs /\ asLocal' = NoLocal
  /\ canvas' = [canvas EXCEPT !.pc = "done",
                                !.out = MyCanvasAddShapeResult(AddShapeReply, "nil")]
  /\ UNCHANGED <<netVars, hmPc, hmErr, peerHeard, settings, blockChain, store, currInkMined,
                 mainPc, mainBlk, mainSnap, asErr, sbPc, sbArg, sbErr, peerChains,
                 crashed>>

\* The key strings art nodes pass as the miner's key.
ClaimedKeys == {myKeyPairInString, myPubKeyStr, peerKeyPairInString}

\* What a client of net/rpc has after a call: the reply of the handler if it
\* returned nil, else the value the client put there before the call.
RpcReply(out, before) == IF out.err = "nil" THEN out.reply ELSE before

\* main has called listenToArtnode (line 298): art nodes reach InkMinerRPC.
Serving == mainPc # "register"

\* An art node calls InkMinerRPC.Connect.
ConnectCall ==
  /\ ~crashed /\ Serving /\ canvas = NoCall
  /\ \E key \in ClaimedKeys :
       canvas' = [fn |-> "Connect", pc |-> "done", args |-> key, out |-> Connect(key)]
  /\ UNCHANGED <<netVars, hmPc, hmErr, peerHeard, settings, blockChain, store, currInkMined,
                 mainPc, mainBlk, mainSnap, asPc, asArgs, asLocal, asErr,
                 sbPc, sbArg, sbErr, peerChains, crashed>>

\* An art node calls InkMinerRPC.GetInk.
GetInkCall ==
  /\ ~crashed /\ Serving /\ canvas = NoCall
  /\ \E key \in ClaimedKeys :
       canvas' = [fn |-> "GetInk", pc |-> "done", args |-> key, out |-> GetInk(key)]
  /\ UNCHANGED <<netVars, hmPc, hmErr, peerHeard, settings, blockChain, store, currInkMined,
                 mainPc, mainBlk, mainSnap, asPc, asArgs, asLocal, asErr,
                 sbPc, sbArg, sbErr, peerChains, crashed>>

\* OpenCanvas(minerAddr, privKey), lines 255-285, the miner being reachable:
\* the canvas (<<>> for none), the canvas settings and the error.
OpenCanvas(privKeyInString) ==
  LET called == Connect(privKeyInString)
      validMiner == RpcReply(called, [MinerNetSets |-> NoSettings, Valid |-> FALSE])
      setting == [CanvasXMax |-> 0, CanvasYMax |-> 0]
  IN  IF ~validMiner.Valid
      THEN [canvas |-> <<>>, setting |-> setting,
            err |-> "DisconnectedError", errText |-> "invalid miner key"]
      ELSE IF called.err # "nil"
      THEN [canvas |-> <<>>, setting |-> setting,
            err |-> "DisconnectedError", errText |-> "InkMinerRPC.Connect"]
      ELSE [canvas |-> <<"MyCanvas", privKeyInString>>, setting |-> setting,
            err |-> "nil"]

\* An art node calls blockartlib.OpenCanvas.
OpenCanvasCall ==
  /\ ~crashed /\ Serving /\ canvas = NoCall
  /\ \E key \in ClaimedKeys :
       canvas' = [fn |-> "OpenCanvas", pc |-> "done", args |-> key,
                  out |-> OpenCanvas(key)]
  /\ UNCHANGED <<netVars, hmPc, hmErr, peerHeard, settings, blockChain, store, currInkMined,
                 mainPc, mainBlk, mainSnap, asPc, asArgs, asLocal, asErr,
                 sbPc, sbArg, sbErr, peerChains, crashed>>

\* The shape hashes an art node may ask about: those of the shapes and one of
\* no shape.
ShapeHashes ==
  {computeNonceSecretHash(SvgStr(path), zeroPubKeyStr) : path \in 1..MaxShape}
    \cup {Atom("md5", 9)}

\* An art node calls InkMinerRPC.DeleteShape.
DeleteShapeCall ==
  /\ ~crashed /\ canvas = NoCall
  /\ \E shapeHash \in ShapeHashes, artNodePK \in ArtNodeKeys :
       LET args == DelShapeArgs(0, shapeHash, artNodePK)
       IN  canvas' = [fn |-> "DeleteShape", pc |-> "done", args |-> args,
                      out |-> DeleteShape(args)]
  /\ UNCHANGED <<netVars, hmPc, hmErr, peerHeard, settings, blockChain, store, currInkMined,
                 mainPc, mainBlk, mainSnap, asPc, asArgs, asLocal, asErr,
                 sbPc, sbArg, sbErr, peerChains, crashed>>

\* MyCanvas.DeleteShape, lines 345-349: args := DelShapeArgs{} is what is sent.
MyCanvasDeleteShape ==
  /\ ~crashed /\ canvas = NoCall
  /\ \E validateNum \in 0..MaxValidate, shapeHash \in ShapeHashes :
       LET args == GobDelShapeArgs(DelShapeArgs(0, <<>>, <<>>))
       IN  canvas' = [fn |-> "MyCanvas.DeleteShape", pc |-> "done",
                      args |-> DelShapeArgs(validateNum, shapeHash, <<>>),
                      out |-> DeleteShape(args)]
  /\ UNCHANGED <<netVars, hmPc, hmErr, peerHeard, settings, blockChain, store, currInkMined,
                 mainPc, mainBlk, mainSnap, asPc, asArgs, asLocal, asErr,
                 sbPc, sbArg, sbErr, peerChains, crashed>>

\* An art node calls InkMinerRPC.GetSvgString (MyCanvas.GetSvgString passes
\* the hash and the reply on, lines 325-330).
GetSvgStringCall ==
  /\ ~crashed /\ canvas = NoCall /\ Len(blockChain) > 0
  /\ \E shapeHash \in ShapeHashes :
       canvas' = [fn |-> "GetSvgString", pc |-> "done", args |-> shapeHash,
                  out |-> GetSvgString(shapeHash)]
  /\ UNCHANGED <<netVars, hmPc, hmErr, peerHeard, settings, blockChain, store, currInkMined,
                 mainPc, mainBlk, mainSnap, asPc, asArgs, asLocal, asErr,
                 sbPc, sbArg, sbErr, peerChains, crashed>>

\* GetSvgString while blockChain is empty: blockChain[-1] panics (line 807).
GetSvgStringPanic ==
  /\ ~crashed /\ canvas = NoCall /\ Len(blockChain) = 0
  /\ crashed' = TRUE
  /\ UNCHANGED <<netVars, canvas, hmPc, hmErr, peerHeard, settings, blockChain, store,
                 currInkMined, mainPc, mainBlk, mainSnap, asPc, asArgs, asLocal, asErr,
                 sbPc, sbArg, sbErr, peerChains>>

RECURSIVE Render(_)
\* The svg elements MyCanvas.CloseCanvas puts into the page (lines 386-390).
Render(ops) ==
  IF ops = <<>> THEN <<>>
  ELSE (IF Head(ops).AppShape # Atom("delete", 0) THEN Head(ops).AppShape ELSE <<>>)
         \o Render(Tail(ops))

\* MyCanvas.CloseCanvas, lines 381-396.
MyCanvasCloseCanvas ==
  /\ ~crashed /\ canvas = NoCall
  /\ LET reply == GobCloseCanvReply(CloseCanvas)
     IN  canvas' = [fn |-> "CloseCanvas", pc |-> "done",
                    out |-> [html |-> Render(reply.Ops),
                             inkRemaining |-> reply.inkRemaining, err |-> "nil"]]
  /\ UNCHANGED <<netVars, hmPc, hmErr, peerHeard, settings, blockChain, store, currInkMined,
                 mainPc, mainBlk, mainSnap, asPc, asArgs, asLocal, asErr,
                 sbPc, sbArg, sbErr, peerChains, crashed>>

\* The art node has what its call returned and may call again.
CanvasReturned ==
  /\ ~crashed /\ canvas # NoCall /\ canvas.pc = "done"
  /\ canvas' = NoCall
  /\ UNCHANGED <<netVars, hmPc, hmErr, peerHeard, settings, blockChain, store, currInkMined,
                 mainPc, mainBlk, mainSnap, asPc, asArgs, asLocal, asErr,
                 sbPc, sbArg, sbErr, peerChains, crashed>>

\* ------------------------------------------------- chain validation
minersInBlockChain(bc) == {bc[i].PubKeyMiner : i \in DOMAIN bc}

validateSufficientInkMiner(bc, key) ==
  LET total == totalInkSpentAndMinedByMiner(bc, key)
  IN  total.inkMined >= total.inkSpent

validateSufficientInkAll(bc) ==
  \A miner \in minersInBlockChain(bc) : validateSufficientInkMiner(bc, miner)

validateBlockHashNonce(b) ==
  LET difficulty == IF b.NoOpBlock THEN settings.PoWDifficultyNoOpBlock
                    ELSE settings.PoWDifficultyOpBlock
      found == calculateHash(b, difficulty)
  IN  IF b.Index > 1 /\ ~hasNZeros(b.PrevHash, difficulty)
      THEN [val |-> FALSE, currHash |-> <<>>]
      ELSE [val |-> (found.nonce = FormatInt(b.Nonce)), currHash |-> found.hash]

validateBlockOpSigs(b) ==
  \A i \in DOMAIN b.Ops :
    computeNonceSecretHash(b.PubKeyMiner, b.Ops[i].AppShape) = b.Ops[i].OpSig

RECURSIVE validateBlockChainFrom(_, _)
\* The loop of validateBlockChain over the blocks left, hashVal being the hash
\* of the block before them.
validateBlockChainFrom(bc, hashVal) ==
  IF bc = <<>> THEN TRUE
  ELSE LET b == Head(bc)
           checked == validateBlockHashNonce(b)
       IN  IF b.Index > 1 /\ hashVal # b.PrevHash THEN FALSE
           ELSE IF ~checked.val \/ ~validateBlockOpSigs(b) THEN FALSE
           ELSE validateBlockChainFrom(Tail(bc), checked.currHash)

validateBlockChain(bc) == validateBlockChainFrom(bc, <<>>)

\* isSentChainLonger with the test of line 483 written >= instead of >.
isSentChainLongerOrEqual(newBlocks) == Len(newBlocks) >= Len(blockChain)

isSentChainLonger(newBlocks) == Len(newBlocks) > Len(blockChain)

\* ------------------------------------------- chains a peer may send
\* A block as it travels: the maps are values.
WireBlock(prevHash, nonce, ops, noOp, pubKeyMiner, index) ==
  [PrevHash |-> prevHash, Nonce |-> nonce, Ops |-> ops, NoOpBlock |-> noOp,
   PubKeyMiner |-> pubKeyMiner, Index |-> index,
   maps |-> Maps(MapPut(EmptyMap, pubKeyMiner,
                        InkAccount(settings.InkPerNoOpBlock, 0, settings.InkPerNoOpBlock)),
                 EmptyMap, EmptyMap)]

KindDifficulty(b) ==
  IF b.NoOpBlock THEN settings.PoWDifficultyNoOpBlock ELSE settings.PoWDifficultyOpBlock

Mined(b) == [b EXCEPT !.Nonce = ParseUint(calculateHash(b, KindDifficulty(b)).nonce)]

BlockKinds == {"noop", "deep", "unlinked", "forged", "op"}

\* The block of the given kind a peer puts after the chain bc:
\*   noop      as generateFirstBlock / generateNoOpBlock build it
\*   deep      a no-op block carrying its depth as Index
\*   unlinked  a deep block whose PrevHash is not the hash of the block before
\*   forged    a deep block whose Nonce is not the one the hash search finds
\*   op        a block with one operation signed as validateBlockOpSigs expects
\*   rival     an op block of the second other miner, with the same shape
\*   later     a deep block whose Nonce is the second one from 0 whose hash
\*             has the zeros
NextWireBlock(bc, kind) ==
  LET pos == Len(bc) + 1
      parentHash == IF bc = <<>> THEN settings.GenesisBlockHash
                    ELSE calculateHash(bc[Len(bc)], KindDifficulty(bc[Len(bc)])).hash
      deep == Mined(WireBlock(parentHash, 0, <<>>, TRUE, peerKeyPairInString, pos))
      svgStr == SvgStr(1)
      op == [AppShape |-> svgStr,
             OpSig |-> computeNonceSecretHash(peerKeyPairInString, svgStr),
             PubKeyArtNode |-> Atom("key", 4)]
      rivalOp == [AppShape |-> svgStr,
                  OpSig |-> computeNonceSecretHash(rivalKeyPairInString, svgStr),
                  PubKeyArtNode |-> Atom("key", 5)]
  IN  CASE kind = "noop" ->
             IF bc = <<>> THEN WireBlock(parentHash, 0, <<>>, TRUE, zeroPubKeyStr, 1)
             ELSE Mined(WireBlock(parentHash, 0, <<>>, TRUE, zeroPubKeyStr, 1))
        [] kind = "deep" -> deep
        [] kind = "unlinked" ->
             Mined(WireBlock(Atom("genesis", 9), 0, <<>>, TRUE, peerKeyPairInString, pos))
        [] kind = "forged" -> [deep EXCEPT !.Nonce = deep.Nonce + 1]
        [] kind = "later" ->
             [deep EXCEPT !.Nonce =
                ParseUint(calculateHashFrom(blkToString(deep), KindDifficulty(deep),
                                            deep.Nonce + 1).nonce)]
        [] kind = "op" ->
             Mined(WireBlock(parentHash, 0, <<op>>, FALSE, peerKeyPairInString, pos))
        [] kind = "rival" ->
             Mined(WireBlock(parentHash, 0, <<rivalOp>>, FALSE, rivalKeyPairInString, pos))

RECURSIVE PeerChain(_, _, _)
\* n blocks of kind body and then one block of kind last.
PeerChain(n, body, last) ==
  IF n = 0 THEN <<NextWireBlock(<<>>, last)>>
  ELSE LET init == IF n = 1 THEN <<NextWireBlock(<<>>, body)>>
                   ELSE SubSeq(PeerChain(n - 1, body, body), 1, n)
       IN  Append(init, NextWireBlock(init, last))

SentChains ==
  {PeerChain(n, "deep", last) : n \in 0..(MaxSent - 1), last \in BlockKinds}
    \cup {PeerChain(n, "noop", "noop") : n \in 1..(MaxSent - 1)}

RaceChains ==
  {PeerChain(n, "deep", "deep") : n \in 1..(MaxSent - 1)}
    \cup {PeerChain(1, "deep", "forged")}

\* Chains whose last block has the first nonce that meets the difficulty, a
\* later one that meets it, or one that may not meet it.
NonceChains ==
  {PeerChain(n, "deep", last) : n \in 0..(MaxSent - 1), last \in {"deep", "later", "forged"}}

\* Chains with operations: no-op blocks and then an op block of one miner, and
\* an op block of one miner followed by an op block of another.
OpChains ==
  {PeerChain(n, "deep", last) : n \in 0..(MaxSent - 1), last \in {"deep", "op"}}
    \cup {PeerChain(1, "op", "rival")}

\* ------------------------------------------------ miner-to-miner RPC
RECURSIVE FreshRefs(_, _)
\* The names of n new maps.
FreshRefs(used, n) ==
  IF n = 0 THEN <<>>
  ELSE LET r == CHOOSE x \in 1..(Cardinality(used) + 1) :
                  x \notin used /\ \A q \in 1..(x - 1) : q \in used
       IN  <<r>> \o FreshRefs(used \cup {r}, n - 1)

\* The chain bc as the decoder leaves it in memory: every block with maps of
\* its own.
Decoded(bc, refs) ==
  [i \in 1..Len(bc) |->
     Block(bc[i].PrevHash, bc[i].Nonce, bc[i].Ops, bc[i].NoOpBlock,
           bc[i].PubKeyMiner, bc[i].Index, refs[i])]

\* SendBlockchain, lines 993-995 and 1000-1003: the tests on the chain sent.
SendBlockchainCall ==
  /\ ~crashed /\ sbPc = "idle"
  /\ \E bc \in peerChains :
       IF isSentChainLonger(bc) /\ validateSufficientInkAll(bc) /\ validateBlockChain(bc)
       THEN /\ Len(bc) + Pending <= ChainLimit
            /\ sbPc' = "assign" /\ sbArg' = bc /\ sbErr' = "none"
       ELSE /\ sbPc' = "return" /\ sbArg' = bc /\ sbErr' = "nil"
  /\ UNCHANGED <<netVars, canvas, hmPc, hmErr, peerHeard, settings, blockChain, store, currInkMined, mainPc, mainBlk, mainSnap,
                 asPc, asArgs, asLocal, asErr, peerChains, crashed>>

\* SendBlockchain, lines 997-998: blockChain = bc; return nil.
SendBlockchainAssign ==
  /\ ~crashed /\ sbPc = "assign"
  /\ LET refs == FreshRefs(DOMAIN store, Len(sbArg))
         chain == Decoded(sbArg, refs)
         grown == [r \in (DOMAIN store) \cup Refs(chain) |->
                     IF r \in DOMAIN store THEN store[r]
                     ELSE sbArg[CHOOSE i \in 1..Len(sbArg) : refs[i] = r].maps]
     IN  /\ blockChain' = chain
         /\ store' = Collect(grown, LiveRefs(chain, mainBlk, mainSnap, asLocal.newBlock))
  /\ sbPc' = "return" /\ sbErr' = "nil"
  /\ UNCHANGED <<netVars, canvas, hmPc, hmErr, peerHeard, settings, currInkMined, mainPc, mainBlk, mainSnap,
                 asPc, asArgs, asLocal, asErr, sbArg, peerChains, crashed>>

\* The sending peer has the reply; the handler is free for the next call.
SendBlockchainReturned ==
  /\ ~crashed /\ sbPc = "return"
  /\ sbPc' = "idle" /\ sbArg' = <<>> /\ sbErr' = "none"
  /\ UNCHANGED <<netVars, canvas, hmPc, hmErr, peerHeard, settings, blockChain, store, currInkMined, mainPc, mainBlk, mainSnap,
                 asPc, asArgs, asLocal, asErr, peerChains, crashed>>

\* ------------------------------------------- block queries of art nodes
\* The greatest member of a set of numbers that is not empty.
Highest(S) == CHOOSE x \in S : \A y \in S : y <= x

\* GetChildren(blockHash), lines 921-945: the loop runs from the last block
\* down and returns at the first block whose PrevHash is blockHash, with the
\* hash of that block alone.
GetChildren(blockHash) ==
  LET lastOne == Len(blockChain) - 1
      hits == {i \in DOMAIN blockChain : blockChain[i].PrevHash = blockHash}
      b == blockChain[Highest(hits)]
  IN  IF lastOne < 0 THEN [blockHashes |-> <<>>, err |-> "InvalidBlockHashError"]
      ELSE IF hits = {} THEN [blockHashes |-> <<>>, err |-> "InvalidBlockHashError"]
      ELSE [blockHashes |-> <<calculateHash(b, KindDifficulty(b)).hash>>, err |-> "nil"]

\* GetShapes, lines 898-900 and 906-908: (*shapeHashes)[j] = ops[j].OpSig on
\* the slice of length 0 that net/rpc hands to the handler; the first
\* assignment is out of range, and net/rpc does not recover a panic of a
\* handler.
ShapeHashesInto(ops) ==
  IF ops = <<>> THEN [shapeHashes |-> <<>>, err |-> "nil"]
  ELSE [shapeHashes |-> <<>>, err |-> "panic"]

\* GetShapes(blockHash), lines 882-913: the last block if blockHash is its
\* hash, else the block before the last one whose PrevHash is blockHash,
\* blockChain[i-1], which for the first block is blockChain[-1].
GetShapes(blockHash) ==
  LET lastOne == Len(blockChain) - 1
      last == blockChain[lastOne + 1]
      lastblockHash == calculateHash(last, KindDifficulty(last)).hash
      hits == {i \in DOMAIN blockChain : blockChain[i].PrevHash = blockHash}
      i == Highest(hits)
  IN  IF lastOne < 0 THEN [shapeHashes |-> <<>>, err |-> "InvalidBlockHashError"]
      ELSE IF lastblockHash = blockHash THEN ShapeHashesInto(last.Ops)
      ELSE IF hits = {} THEN [shapeHashes |-> <<>>, err |-> "InvalidBlockHashError"]
      ELSE IF i = 1 THEN [shapeHashes |-> <<>>, err |-> "panic"]
      ELSE ShapeHashesInto(blockChain[i - 1].Ops)

\* The block hashes an art node may ask about: the genesis hash, the hashes
\* of the blocks of the chain and a hash of no block.
BlockHashes ==
  {settings.GenesisBlockHash, Atom("md5", 8)}
    \cup {calculateHash(blockChain[i], KindDifficulty(blockChain[i])).hash : i \in DOMAIN blockChain}

\* An art node calls GetChildren: MyCanvas.GetChildren passes the hash and the
\* reply on (blockartlib.go lines 373-377).
GetChildrenCall ==
  /\ ~crashed /\ Serving /\ canvas = NoCall
  /\ \E blockHash \in BlockHashes :
       canvas' = [fn |-> "GetChildren", pc |-> "done", args |-> blockHash,
                  out |-> GetChildren(blockHash)]
  /\ UNCHANGED <<netVars, hmPc, hmErr, peerHeard, settings, blockChain, store, currInkMined,
                 mainPc, mainBlk, mainSnap, asPc, asArgs, asLocal, asErr,
                 sbPc, sbArg, sbErr, peerChains, crashed>>

\* An art node calls GetShapes: MyCanvas.GetShapes passes the hash and the
\* reply on (blockartlib.go lines 355-358); a panic of the handler ends the
\* miner.
GetShapesCall ==
  /\ ~crashed /\ Serving /\ canvas = NoCall
  /\ \E blockHash \in BlockHashes :
       LET out == GetShapes(blockHash)
       IN  /\ canvas' = [fn |-> "GetShapes", pc |-> "done", args |-> blockHash, out |-> out]
           /\ crashed' = (out.err = "panic")
  /\ UNCHANGED <<netVars, hmPc, hmErr, peerHeard, settings, blockChain, store, currInkMined,
                 mainPc, mainBlk, mainSnap, asPc, asArgs, asLocal, asErr,
                 sbPc, sbArg, sbErr, peerChains>>

\* ------------------------------------------------------- the peer network
\* The miners of the network: Self is the miner of this model, Peer another
\* miner that runs the same code.  A miner's address names it.
Self == "A"

Peer == "B"

Miners == {Self, Peer}

Other(m) == IF m = Self THEN Peer ELSE Self

\* settings.MinNumMinerConnections.
MinNumMinerConnections == 2

\* The connectToMiner goroutines of a miner that are followed while they
\* wait for the lock behind another one.
MaxConnecting == 2

\* make([]string, 10), line 36: ten empty strings.
NoNeighbours == [i \in 1..10 |-> ""]

\* allMinersConnectedTo (lines 48-52) as line 36 makes it: lock is the task
\* that holds the RWMutex.
NoMinersConnectedTo ==
  [lock |-> "free", currentNumNeighbours |-> 0, all |-> NoNeighbours]

\* A loop over all that never finds the address.
neverConnectedTo(all, addr) == FALSE

\* The loops of lines 635-639 and 976-981: addr is an element of all.
alreadyConnectedTo(all, addr) == \E i \in DOMAIN all : all[i] = addr

\* The goroutines of a miner that take the lock: monitorNumConnections (mon),
\* connectToMiner for the other miner (cm), the handler EstablishReverseRPC
\* serving the other miner's call (er) and handleMiner (hm); the further
\* connectToMiner goroutines that wait for the lock (waiting); and what the
\* miner has done so far: the EstablishReverseRPC calls it made (calls), the
\* handleMiner goroutines it started (handlers), and whether a connectToMiner
\* returned at line 637 (returned).
NoGoroutines ==
  [mon |-> "sleep", cm |-> "none", er |-> "idle", hm |-> "none",
   waiting |-> 0, calls |-> 0, handlers |-> 0, returned |-> FALSE]

\* go connectToMiner(addr), lines 617 and 986: one more goroutine that dials
\* and asks for the lock.
goConnectToMiner(pc) ==
  IF pc.cm = "none" THEN [pc EXCEPT !.cm = "lock"] ELSE [pc EXCEPT !.waiting = @ + 1]

\* A connectToMiner goroutine has returned; one that waits takes its place.
connectToMinerDone(pc) ==
  IF pc.waiting > 0 THEN [pc EXCEPT !.cm = "lock", !.waiting = @ - 1]
  ELSE [pc EXCEPT !.cm = "none"]

\* The miner m runs: listeners and the goroutines of lines 298-303 start once
\* main is past Register.
Alive(m) == m = Self => (~crashed /\ mainPc # "register")

\* An exitOnError that prints the error and returns.
exitOnErrorReturns(err) == FALSE

\* exitOnError (lines 215-220): os.Exit(1) on an error.
exitOnError(err) == err # "nil"

\* What a call to the registry comes to: nil, an error of the Call, or no
\* connection because rpc.Dial failed.
RegistryOutcomes == IF registry.up THEN {"nil"} ELSE {"error", "unreachable"}

\* The process ends on a registry call that came to out: main (lines 268-297),
\* sendHeartBeats (565-583) and helperGetNodes (596-611) print the error of a
\* failed Dial and go on to the nil connection or client, which panics; the
\* error of the Call goes to exitOnError.
RegistryCallEnds(out) == IF out = "unreachable" THEN TRUE ELSE exitOnError(out)

\* main, lines 268-297: dial the registry and Register.
MainRegister ==
  /\ ~crashed /\ mainPc = "register"
  /\ \E out \in RegistryOutcomes :
       /\ registry' = [registry EXCEPT !.call = "Register", !.err = out]
       /\ crashed' = RegistryCallEnds(out)
  /\ mainPc' = "sleep"
  /\ UNCHANGED <<minersConnectedTo, netPc, canvas, hmPc, hmErr, peerHeard, settings,
                 blockChain, store, currInkMined, mainBlk, mainSnap,
                 asPc, asArgs, asLocal, asErr, sbPc, sbArg, sbErr, peerChains>>

\* time.Millisecond in nanoseconds, the unit of time.Duration.
Millisecond == 1000000

\* A sleep of the whole heartbeat interval.
timeToSleepWhole(heartBeatInterval) == heartBeatInterval * Millisecond

\* sendHeartBeats, lines 573-574: the sleep between two heartbeats, an int64
\* of nanoseconds (a uint32 of milliseconds times 10^6 is below 2^63).
timeToSleep(heartBeatInterval) == (heartBeatInterval * Millisecond) \div 20

\* sendHeartBeats, lines 573-581: one round of the loop, the sleep and the
\* call; the function reads neither minersConnectedTo nor blockChain.
SendHeartBeats ==
  /\ Alive(Self)
  /\ \E out \in RegistryOutcomes :
       /\ registry' = [registry EXCEPT !.call = "HeartBeat", !.err = out,
                                        !.slept = timeToSleep(settings.HeartBeat)]
       /\ crashed' = RegistryCallEnds(out)
  /\ UNCHANGED <<minersConnectedTo, netPc, canvas, hmPc, hmErr, peerHeard, settings,
                 blockChain, store, currInkMined, mainPc, mainBlk, mainSnap,
                 asPc, asArgs, asLocal, asErr, sbPc, sbArg, sbErr, peerChains>>

\* The registry stops answering.
RegistryFails ==
  /\ ~crashed /\ registry.up
  /\ registry' = [registry EXCEPT !.up = FALSE]
  /\ UNCHANGED <<minersConnectedTo, netPc, canvas, hmPc, hmErr, peerHeard, settings,
                 blockChain, store, currInkMined, mainPc, mainBlk, mainSnap,
                 asPc, asArgs, asLocal, asErr, sbPc, sbArg, sbErr, peerChains, crashed>>

\* monitorNumConnections, lines 494-499: the sleep ends and helperGetNodes
\* asks for the lock (line 593).
MonitorNumConnections ==
  /\ Alive(Self) /\ netPc[Self].mon = "sleep"
  /\ netPc[Self].waiting < MaxConnecting
  /\ netPc' = [netPc EXCEPT ![Self].mon = "lock"]
  /\ UNCHANGED <<minersConnectedTo, registry, canvas, hmPc, hmErr, peerHeard, settings,
                 blockChain, store, currInkMined, mainPc, mainBlk, mainSnap,
                 asPc, asArgs, asLocal, asErr, sbPc, sbArg, sbErr, peerChains, crashed>>

\* helperGetNodes, lines 593-597: it gets the lock; with enough neighbours it
\* returns false (line 611) and the deferred Unlock runs, otherwise it dials
\* the registry holding the lock.
HelperGetNodesLock ==
  /\ Alive(Self) /\ netPc[Self].mon = "lock"
  /\ minersConnectedTo[Self].lock = "free"
  /\ IF minersConnectedTo[Self].currentNumNeighbours < MinNumMinerConnections
     THEN /\ minersConnectedTo' = [minersConnectedTo EXCEPT ![Self].lock = "helperGetNodes"]
          /\ netPc' = [netPc EXCEPT ![Self].mon = "rpc"]
     ELSE /\ minersConnectedTo' = minersConnectedTo
          /\ netPc' = [netPc EXCEPT ![Self].mon = "sleep"]
  /\ UNCHANGED <<registry, canvas, hmPc, hmErr, peerHeard, settings,
                 blockChain, store, currInkMined, mainPc, mainBlk, mainSnap,
                 asPc, asArgs, asLocal, asErr, sbPc, sbArg, sbErr, peerChains, crashed>>

\* helperGetNodes, lines 598-609, and connectToMiners (614-619): GetNodes
\* answers with the address of the peer, the lock is released and a
\* connectToMiner goroutine starts for the address.
HelperGetNodesCall ==
  /\ Alive(Self) /\ netPc[Self].mon = "rpc"
  /\ \E out \in RegistryOutcomes :
       /\ registry' = [registry EXCEPT !.call = "GetNodes", !.err = out]
       /\ crashed' = RegistryCallEnds(out)
       /\ netPc' = [netPc EXCEPT
                      ![Self] = IF out = "nil" THEN goConnectToMiner([@ EXCEPT !.mon = "sleep"])
                                ELSE [@ EXCEPT !.mon = "sleep"]]
  /\ minersConnectedTo' = [minersConnectedTo EXCEPT ![Self].lock = "free"]
  /\ UNCHANGED <<canvas, hmPc, hmErr, peerHeard, settings,
                 blockChain, store, currInkMined, mainPc, mainBlk, mainSnap,
                 asPc, asArgs, asLocal, asErr, sbPc, sbArg, sbErr, peerChains>>

\* The monitor task of the peer, lines 494-499 and 593-619 in one step: with
\* its lock free and too few neighbours it learns the address of this miner
\* from the registry and starts connectToMiner for it.
PeerMonitorNumConnections ==
  /\ Alive(Self) /\ netPc[Peer].waiting < MaxConnecting
  /\ minersConnectedTo[Peer].lock = "free"
  /\ minersConnectedTo[Peer].currentNumNeighbours < MinNumMinerConnections
  /\ netPc' = [netPc EXCEPT ![Peer] = goConnectToMiner(@)]
  /\ UNCHANGED <<minersConnectedTo, registry, canvas, hmPc, hmErr, peerHeard, settings,
                 blockChain, store, currInkMined, mainPc, mainBlk, mainSnap,
                 asPc, asArgs, asLocal, asErr, sbPc, sbArg, sbErr, peerChains, crashed>>

\* connectToMiner of m for the other miner, lines 628-644: after the dial it
\* gets the lock; an address already in all ends it (lines 635-639, the
\* deferred Unlock runs), a new one is appended and EstablishReverseRPC is
\* called on the other miner with the lock held.
ConnectToMinerLock(m) ==
  /\ Alive(Self) /\ netPc[m].cm = "lock"
  /\ minersConnectedTo[m].lock = "free"
  /\ IF alreadyConnectedTo(minersConnectedTo[m].all, Other(m))
     THEN /\ minersConnectedTo' = minersConnectedTo
          /\ netPc' = [netPc EXCEPT ![m] = connectToMinerDone([@ EXCEPT !.returned = TRUE])]
     ELSE /\ minersConnectedTo' = [minersConnectedTo EXCEPT
                                     ![m].lock = "connectToMiner",
                                     ![m].all = Append(@, Other(m))]
          /\ netPc' = [netPc EXCEPT ![m].cm = "call", ![m].calls = @ + 1,
                                    ![Other(m)].er = "lock"]
  /\ UNCHANGED <<registry, canvas, hmPc, hmErr, peerHeard, settings,
                 blockChain, store, currInkMined, mainPc, mainBlk, mainSnap,
                 asPc, asArgs, asLocal, asErr, sbPc, sbArg, sbErr, peerChains, crashed>>

\* EstablishReverseRPC of m serving the other miner's call, lines 973-989: it
\* takes the lock, starts connectToMiner for a caller that is not in all, and
\* replies; the lock is released on return.
EstablishReverseRPC(m) ==
  /\ Alive(Self) /\ netPc[m].er = "lock"
  /\ minersConnectedTo[m].lock = "free"
  /\ netPc' = [netPc EXCEPT
                 ![m] = IF alreadyConnectedTo(minersConnectedTo[m].all, Other(m))
                        THEN [@ EXCEPT !.er = "idle"]
                        ELSE goConnectToMiner([@ EXCEPT !.er = "idle"]),
                 ![Other(m)].cm = "replied"]
  /\ UNCHANGED <<minersConnectedTo, registry, canvas, hmPc, hmErr, peerHeard, settings,
                 blockChain, store, currInkMined, mainPc, mainBlk, mainSnap,
                 asPc, asArgs, asLocal, asErr, sbPc, sbArg, sbErr, peerChains, crashed>>

\* connectToMiner of m, lines 645-650: the reply is in; go handleMiner, and
\* the deferred Unlock runs.
ConnectToMinerReturn(m) ==
  /\ Alive(Self) /\ netPc[m].cm = "replied"
  /\ netPc' = [netPc EXCEPT
                 ![m] = connectToMinerDone([@ EXCEPT !.hm = "lock", !.handlers = @ + 1])]
  /\ minersConnectedTo' = [minersConnectedTo EXCEPT ![m].lock = "free"]
  /\ UNCHANGED <<registry, canvas, hmPc, hmErr, peerHeard, settings,
                 blockChain, store, currInkMined, mainPc, mainBlk, mainSnap,
                 asPc, asArgs, asLocal, asErr, sbPc, sbArg, sbErr, peerChains, crashed>>

\* handleMiner of m, lines 657-659: it takes the lock and counts the
\* neighbour; the Unlock is deferred to the return of a function that loops
\* for ever (lines 669-676).
HandleMinerLock(m) ==
  /\ Alive(Self) /\ netPc[m].hm = "lock"
  /\ minersConnectedTo[m].lock = "free"
  /\ minersConnectedTo' = [minersConnectedTo EXCEPT
                             ![m].lock = "handleMiner",
                             ![m].currentNumNeighbours = @ + 1]
  /\ netPc' = [netPc EXCEPT ![m].hm = "run"]
  /\ UNCHANGED <<registry, canvas, hmPc, hmErr, peerHeard, settings,
                 blockChain, store, currInkMined, mainPc, mainBlk, mainSnap,
                 asPc, asArgs, asLocal, asErr, sbPc, sbArg, sbErr, peerChains, crashed>>

\* --------------------------------------------------------- handleMiner
\* The methods the miner-to-miner server of a peer offers: the service name
\* of registerServerMinerToMiner (line 1013) and the methods of
\* MinerToMinerRPC; a name is the sequence of its parts around the dot.
RegisteredMethods ==
  {<<"MinerToMinerRPC", m>> : m \in {"PrintText", "EstablishReverseRPC", "SendBlockchain"}}

\* net/rpc serves a request whose name is service.method of a registered
\* service and answers any other name with an error.
ServerFinds(serviceMethod) == Len(serviceMethod) = 2 /\ serviceMethod \in RegisteredMethods

\* The names handleMiner calls (lines 663 and 675).
PrintTextName == <<"MinerToMinerRPC", "PrintText">>

SendBlockchainName == <<"SendBlockChain">>

\* The block b as a peer sees it.
BlockId(b) == <<blkToString(b), b.Nonce>>

\* handleMiner, lines 656-668: the greeting.
HandleMinerStart ==
  /\ ~crashed /\ netPc[Self].hm = "run" /\ hmPc = "start"
  /\ hmErr' = IF ServerFinds(PrintTextName) THEN "nil" ELSE "rpc: can't find service"
  /\ hmPc' = "sleep"
  /\ UNCHANGED <<netVars, canvas, peerHeard, settings, blockChain, store, currInkMined,
                 mainPc, mainBlk, mainSnap, asPc, asArgs, asLocal, asErr,
                 sbPc, sbArg, sbErr, peerChains, crashed>>

\* handleMiner, lines 670-675: otherMiner.Call("SendBlockChain", blockChain, &reply);
\* the peer's handler runs if its server finds the method.
HandleMinerCall ==
  /\ ~crashed /\ netPc[Self].hm = "run" /\ hmPc = "sleep"
  /\ IF ServerFinds(SendBlockchainName)
     THEN /\ peerHeard' = peerHeard \cup {BlockId(blockChain[i]) : i \in DOMAIN blockChain}
          /\ hmErr' = "nil"
     ELSE /\ peerHeard' = peerHeard
          /\ hmErr' = "rpc: can't find service"
  /\ hmPc' = "call"
  /\ UNCHANGED <<netVars, canvas, settings, blockChain, store, currInkMined,
                 mainPc, mainBlk, mainSnap, asPc, asArgs, asLocal, asErr,
                 sbPc, sbArg, sbErr, peerChains, crashed>>

\* handleMiner, lines 669-673: the error is dropped and the loop sleeps again.
HandleMinerSleep ==
  /\ ~crashed /\ netPc[Self].hm = "run" /\ hmPc = "call"
  /\ hmPc' = "sleep" /\ hmErr' = "none"
  /\ UNCHANGED <<netVars, canvas, peerHeard, settings, blockChain, store, currInkMined,
                 mainPc, mainBlk, mainSnap, asPc, asArgs, asLocal, asErr,
                 sbPc, sbArg, sbErr, peerChains, crashed>>

\* --------------------------------------------------- the state machine
Settings ==
  [GenesisBlockHash : {Atom("genesis", 5)},
   HeartBeat : {MaxHeartBeat},
   InkPerNoOpBlock : 1..MaxReward,
   InkPerOpBlock : {MaxReward + 1},
   PoWDifficultyOpBlock : {MaxDifficulty},
   PoWDifficultyNoOpBlock : 0..MaxDifficulty]

\* Settings whose reward for an op block pays for an operation.
SettingsOps ==
  [GenesisBlockHash : {Atom("genesis", 5)},
   HeartBeat : {MaxHeartBeat},
   InkPerNoOpBlock : 1..MaxReward,
   InkPerOpBlock : {shapeInkCost(SvgStr(1))},
   PoWDifficultyOpBlock : {MaxDifficulty},
   PoWDifficultyNoOpBlock : 0..MaxDifficulty]

\* Settings with every heartbeat interval up to MaxHeartBeat.
SettingsBeat ==
  [GenesisBlockHash : {Atom("genesis", 5)},
   HeartBeat : 1..MaxHeartBeat,
   InkPerNoOpBlock : {MaxReward},
   InkPerOpBlock : {MaxReward + 1},
   PoWDifficultyOpBlock : {MaxDifficulty},
   PoWDifficultyNoOpBlock : {MaxDifficulty}]

\* The package variables as the program starts with them (lines 30-60), no
\* handler running.
Loaded ==
  /\ blockChain = <<>>
  /\ store = EmptyMap
  /\ currInkMined = 0
  /\ mainBlk = <<>> /\ mainSnap = <<>>
  /\ asPc = "idle" /\ asArgs = NoArgs /\ asLocal = NoLocal /\ asErr = "none"
  /\ sbPc = "idle" /\ sbArg = <<>> /\ sbErr = "none"
  /\ crashed = FALSE
  /\ canvas = NoCall
  /\ hmPc = "start" /\ hmErr = "none" /\ peerHeard = {}

\* The registry has answered Register.
Registered == registry = [up |-> TRUE, call |-> "Register", err |-> "nil", slept |-> 0]

\* No miner has connected to another.
Unconnected ==
  /\ minersConnectedTo = [m \in Miners |-> NoMinersConnectedTo]
  /\ netPc = [m \in Miners |-> NoGoroutines]

\* The two miners have connected and each runs handleMiner for the other.
Connected ==
  /\ minersConnectedTo = [m \in Miners |->
                            [lock |-> "handleMiner", currentNumNeighbours |-> 1,
                             all |-> Append(NoNeighbours, Other(m))]]
  /\ netPc = [m \in Miners |->
                [NoGoroutines EXCEPT !.hm = "run", !.calls = 1, !.handlers = 1]]

\* The miner once main has registered and opened its listeners (lines 255-303)
\* and handleMiner has started for the peer, but for the settings the server
\* gave it.
Listening == Loaded /\ mainPc = "sleep" /\ Registered /\ Connected

Started == settings \in Settings /\ Listening

\* A miner among peers that send well-formed chains and a forged one, with
\* art nodes drawing on it.
Init == Started /\ peerChains = RaceChains

\* A miner that only mines, among peers that send every chain of SentChains.
InitPeers == Started /\ peerChains = SentChains

\* A miner no peer sends chains to.
InitSolo == Started /\ peerChains = {}

Next ==
  \/ MainGenerate
  \/ MainAppend
  \/ MainRecord
  \/ AddShapePanic
  \/ AddShapeFail
  \/ AddShapeFailed
  \/ AddShapeCall
  \/ AddShapeAppend
  \/ AddShapeReturn
  \/ SendBlockchainCall
  \/ SendBlockchainAssign
  \/ SendBlockchainReturned

Spec == Init /\ [][Next]_vars

NextPeers ==
  \/ MainGenerate
  \/ MainAppend
  \/ MainRecord
  \/ SendBlockchainCall
  \/ SendBlockchainAssign
  \/ SendBlockchainReturned

SpecPeers == InitPeers /\ [][NextPeers]_vars

\* A miner that only mines, among peers that send the chains of NonceChains.
InitNonce == Started /\ peerChains = NonceChains

SpecNonce == InitNonce /\ [][NextPeers]_vars

\* A miner that only mines, among peers that send chains with operations,
\* under settings that pay for them.
InitOps == settings \in SettingsOps /\ Listening /\ peerChains = OpChains

SpecOps == InitOps /\ [][NextPeers]_vars

NextSolo ==
  \/ MainGenerate
  \/ MainAppend
  \/ MainRecord
  \/ AddShapePanic
  \/ AddShapeFail
  \/ AddShapeFailed
  \/ AddShapeCall
  \/ AddShapeAppend
  \/ AddShapeReturn

SpecSolo == InitSolo /\ [][NextSolo]_vars

\* Two miners that have registered and connect to one another; the miner
\* does not mine.
InitNet ==
  /\ settings \in Settings /\ Loaded /\ mainPc = "sleep" /\ Registered /\ Unconnected
  /\ peerChains = {}

NextNet ==
  \/ MonitorNumConnections
  \/ HelperGetNodesLock
  \/ HelperGetNodesCall
  \/ PeerMonitorNumConnections
  \/ \E m \in Miners : ConnectToMinerLock(m)
  \/ \E m \in Miners : EstablishReverseRPC(m)
  \/ \E m \in Miners : ConnectToMinerReturn(m)
  \/ \E m \in Miners : HandleMinerLock(m)
  \/ HandleMinerStart
  \/ HandleMinerCall
  \/ HandleMinerSleep

SpecNet == InitNet /\ [][NextNet]_vars

\* SpecNet with the heartbeat task, under every heartbeat interval.
InitBeat ==
  /\ settings \in SettingsBeat /\ Loaded /\ mainPc = "sleep" /\ Registered /\ Unconnected
  /\ peerChains = {}

NextBeat == NextNet \/ SendHeartBeats

SpecBeat == InitBeat /\ [][NextBeat]_vars

\* SpecNet where every goroutine that can take a step eventually takes it,
\* and a goroutine that asks for a lock gets it if the lock is free again
\* and again (sync.RWMutex lets no waiter starve).
SpecNetFair ==
  /\ SpecNet
  /\ WF_vars(MonitorNumConnections) /\ SF_vars(HelperGetNodesLock)
  /\ WF_vars(HelperGetNodesCall)
  /\ \A m \in Miners :
       /\ SF_vars(ConnectToMinerLock(m)) /\ SF_vars(EstablishReverseRPC(m))
       /\ WF_vars(ConnectToMinerReturn(m)) /\ SF_vars(HandleMinerLock(m))
  /\ WF_vars(HandleMinerStart \/ HandleMinerCall \/ HandleMinerSleep)

\* A miner from the start of main, with a registry that may stop answering,
\* the art nodes it serves and no peer.
InitRegistry ==
  /\ settings \in Settings /\ Loaded /\ mainPc = "register"
  /\ registry = [up |-> TRUE, call |-> "none", err |-> "none", slept |-> 0]
  /\ Unconnected /\ peerChains = {}

NextRegistry ==
  \/ MainRegister
  \/ RegistryFails
  \/ SendHeartBeats
  \/ MonitorNumConnections
  \/ HelperGetNodesLock
  \/ HelperGetNodesCall
  \/ MainGenerate
  \/ MainAppend
  \/ MainRecord
  \/ GetInkCall
  \/ CanvasReturned

SpecRegistry == InitRegistry /\ [][NextRegistry]_vars

\* SpecSolo with an AddShape handler that takes every step it can take; how
\* fast the main loop mines is left open.
SpecWait ==
  /\ InitSolo /\ [][NextSolo]_vars
  /\ WF_vars(AddShapeAppend \/ AddShapeReturn \/ AddShapeFailed)

\* A miner no peer sends chains to, with art nodes that use blockartlib and
\* the read-only calls of InkMinerRPC.
NextArt ==
  \/ MainGenerate
  \/ MainAppend
  \/ MainRecord
  \/ AddShapePanic
  \/ AddShapeAppend
  \/ ConnectCall
  \/ GetInkCall
  \/ OpenCanvasCall
  \/ GetChildrenCall
  \/ GetShapesCall
  \/ MyCanvasAddShapeRefuse
  \/ MyCanvasAddShapeCall
  \/ MyCanvasAddShapeReturn
  \/ DeleteShapeCall
  \/ MyCanvasDeleteShape
  \/ GetSvgStringCall
  \/ GetSvgStringPanic
  \/ MyCanvasCloseCanvas
  \/ CanvasReturned

SpecArt == InitSolo /\ [][NextArt]_vars

\* A miner with one connected peer it sends its chain to; every goroutine
\* that can take a step eventually takes it.
NextGossip ==
  \/ MainGenerate
  \/ MainAppend
  \/ MainRecord
  \/ HandleMinerStart
  \/ HandleMinerCall
  \/ HandleMinerSleep

\* The main loop can take a step: ENABLED <<MainGenerate \/ MainAppend \/ MainRecord>>_vars.
MainEnabled ==
  /\ ~crashed
  /\ \/ mainPc \in {"append", "record"}
     \/ mainPc = "sleep" /\ Horizon + Pending < ChainLimit

\* Weak fairness of the main loop, written out with MainEnabled, and weak
\* fairness of handleMiner.
SpecGossip ==
  /\ InitSolo /\ [][NextGossip]_vars
  /\ ([]<>(~MainEnabled) \/ []<><<mainPc' # mainPc>>_vars)
  /\ WF_vars(HandleMinerStart \/ HandleMinerCall \/ HandleMinerSleep)

\* ------------------------------------------------------------ properties
\* The block hash of b: the hash its proof of work ends on.
BlockHash(b) == calculateHash(b, KindDifficulty(b)).hash

\* The cost of the shape an operation adds.
OpCost(op) == ShapeCost(op.AppShape[1].n)

RECURSIVE OpsCost(_)
OpsCost(ops) == IF ops = <<>> THEN 0 ELSE OpCost(Head(ops)) + OpsCost(Tail(ops))

RECURSIVE Replay(_, _)
\* The replay of the chain bc for the producers named by keys: the rewards of
\* their blocks and the costs of the operations in their blocks.
Replay(bc, keys) ==
  IF bc = <<>> THEN [inkMined |-> 0, inkSpent |-> 0]
  ELSE LET rest == Replay(SubSeq(bc, 1, Len(bc) - 1), keys)
           blk == bc[Len(bc)]
       IN  IF blk.PubKeyMiner \in keys
           THEN [inkMined |-> rest.inkMined +
                   (IF blk.Ops # <<>> THEN settings.InkPerOpBlock
                    ELSE settings.InkPerNoOpBlock),
                 inkSpent |-> rest.inkSpent + OpsCost(blk.Ops)]
           ELSE rest

\* The strings under which the code names this miner.
MinerKeys == {zeroPubKeyStr, myPubKeyStr, myKeyPairInString}

\* The ink available to this miner on the chain bc: mined minus spent.
Available(bc) == Replay(bc, MinerKeys).inkMined - Replay(bc, MinerKeys).inkSpent

\* No handler and no loop iteration is under way.
Quiet == mainPc = "sleep" /\ asPc = "idle" /\ sbPc = "idle" /\ ~crashed

\* The chain in memory holds the blocks and maps of the chain bc as sent.
SameChain(chain, st, bc) ==
  /\ Len(chain) = Len(bc)
  /\ \A i \in DOMAIN chain :
       /\ chain[i].PrevHash = bc[i].PrevHash /\ chain[i].Nonce = bc[i].Nonce
       /\ chain[i].Ops = bc[i].Ops /\ chain[i].NoOpBlock = bc[i].NoOpBlock
       /\ chain[i].PubKeyMiner = bc[i].PubKeyMiner /\ chain[i].Index = bc[i].Index
       /\ chain[i].ref \in DOMAIN st /\ st[chain[i].ref] = bc[i].maps

\* C1: in every reachable state, under any interleaving of the mining loop,
\* AddShape and SendBlockchain, every block of the local chain except the
\* first has PrevHash equal to the block hash of the block stored right before
\* it (no block built on a tip since extended or replaced is appended).
ChainLinked ==
  \A i \in 2..Len(blockChain) : blockChain[i].PrevHash = BlockHash(blockChain[i - 1])

\* C2: SendBlockchain goes on to replace the local chain exactly when the
\* chain received is strictly longer than the local chain it tests and passes
\* validateSufficientInkAll and validateBlockChain; replacing makes the local
\* chain the received one; otherwise the local chain is left as it is; and
\* every call returns nil.
SendBlockchainReplacesIffLongerValid ==
  [][ /\ (sbPc = "idle" /\ sbPc' # "idle") =>
           /\ blockChain' = blockChain
           /\ (sbPc' = "assign") <=>
                (/\ Len(sbArg') > Len(blockChain)
                 /\ validateSufficientInkAll(sbArg')
                 /\ validateBlockChain(sbArg'))
      /\ (sbPc = "assign" /\ sbPc' # "assign") =>
           SameChain(blockChain', store', sbArg)
      /\ (sbPc # "return" /\ sbPc' = "return") => sbErr' = "nil"
      /\ (sbPc = "return" /\ sbPc' # "return") => blockChain' = blockChain
    ]_vars

\* C2 witness: SendBlockchain has made a received chain of more than one
\* block the local chain and is returning nil.
SentChainAdopted ==
  /\ sbPc = "return" /\ sbErr = "nil"
  /\ Len(sbArg) > 1
  /\ SameChain(blockChain, store, sbArg)
  /\ blockChain[1].PubKeyMiner = peerKeyPairInString

\* A chain bc received wins the tie against the local chain: it is valid, as
\* long as the local chain, and its tip's hash is the smaller one.
WinsTie(bc) ==
  /\ Len(bc) > 0 /\ Len(bc) = Len(blockChain)
  /\ validateSufficientInkAll(bc) /\ validateBlockChain(bc)
  /\ HexRank(BlockHash(bc[Len(bc)])) < HexRank(BlockHash(blockChain[Len(blockChain)]))

\* C3: a miner holding a chain of length L that receives a valid chain of
\* length L whose tip hash is lexicographically smaller selects the received
\* chain: SendBlockchain never turns such a chain down.
TieBrokenBySmallestHash ==
  [][(sbPc = "idle" /\ sbPc' = "return") => ~WinsTie(sbArg')]_vars

\* C4: after any sequence of no-op mining and AddShape calls the block at
\* position i of the chain (first block at position 0) has Index i+1; the
\* sequence blockChain counts positions from 1.
IndexIsDepth ==
  \A i \in DOMAIN blockChain : blockChain[i].Index = i

\* C5: after any sequence of no-op mining and successful AddShape calls, for
\* every block of the local chain and every key recorded in its MinerInks,
\* inkRemain = inkMined - inkSpent and inkSpent <= inkMined.
InkAccountsBalanced ==
  Quiet =>
    \A i \in DOMAIN blockChain :
      LET mInks == MinerInksOf(store, blockChain[i])
      IN  \A k \in DOMAIN mInks :
            /\ mInks[k].inkRemain = mInks[k].inkMined - mInks[k].inkSpent
            /\ mInks[k].inkSpent <= mInks[k].inkMined

\* C6: for every block B of the local chain and every miner M, the account
\* stored in B for M equals the replay of the chain up to and including B:
\* inkMined the rewards of the blocks M produced, inkSpent the costs of the
\* operations in them.
InkAccountsAreReplay ==
  Quiet =>
    \A i \in DOMAIN blockChain :
      LET prefix == SubSeq(blockChain, 1, i)
          mInks == MinerInksOf(store, blockChain[i])
      IN  \A M \in (DOMAIN mInks) \cup minersInBlockChain(prefix) :
            /\ InkGet(mInks, M).inkMined = Replay(prefix, {M}).inkMined
            /\ InkGet(mInks, M).inkSpent = Replay(prefix, {M}).inkSpent

\* C7: a miner running alone whose loop has appended n >= 1 no-op blocks and
\* no shape operation has a chain of n blocks, and GetInk with the miner's key
\* returns n times InkPerNoOpBlock.
LoneMinerInk ==
  (/\ Quiet /\ peerChains = {} /\ Len(blockChain) >= 1
   /\ \A i \in DOMAIN blockChain : blockChain[i].NoOpBlock /\ blockChain[i].Ops = <<>>)
    => GetInk(myKeyPairInString) =
         [reply |-> Len(blockChain) * settings.InkPerNoOpBlock, err |-> "nil"]

\* C8: an AddShape that succeeds for a shape of cost c replies InkRemaining =
\* the miner's remaining ink (mined minus spent) right before the call, minus
\* c; also when it follows an earlier successful AddShape.  The reply's
\* InkRemaining is fixed in the step that accepts the shape (line 749) and
\* returned as it is (line 801).
AddShapeRepliesRemaining ==
  [][(asPc = "idle" /\ asPc' = "append" /\ mainPc = "sleep") =>
       asLocal'.currentInkRemain =
         Available(blockChain) - ShapeCost(asArgs'.ShapeSvgString)]_vars

\* C9: after any sequence of mined blocks and successful AddShape calls,
\* GetInk with the miner's key returns the ink available to the miner, its
\* mined ink minus its spent ink on the current chain.
GetInkIsAvailable ==
  Quiet => GetInk(myKeyPairInString) = [reply |-> Available(blockChain), err |-> "nil"]

\* C10: whenever AddShape returns success for a request with ValidateNum = N,
\* the block holding the new operation is in the current chain and at least N
\* blocks follow it there, under any interleaving with the mining loop and
\* with SendBlockchain.
AddShapeConfirmed ==
  [][(asPc = "wait" /\ asPc' = "idle") =>
       \E i \in DOMAIN blockChain :
         /\ BlockHash(blockChain[i]) = asLocal.blockHash
         /\ Len(blockChain) - i >= asArgs.ValidateNum]_vars

\* The art-node keys that own an operation of hash shapeHash in the chain.
Owners(shapeHash) ==
  {k \in ArtNodeKeys :
     \E i \in DOMAIN blockChain : \E j \in DOMAIN blockChain[i].Ops :
       /\ blockChain[i].Ops[j].OpSig = shapeHash
       /\ blockChain[i].Ops[j].PubKeyArtNode = k}

RECURSIVE Distinct(_)
\* The sequence s without the later copies of its elements.
Distinct(s) ==
  IF s = <<>> THEN <<>>
  ELSE LET init == Distinct(SubSeq(s, 1, Len(s) - 1))
           x == s[Len(s)]
       IN  IF \E i \in DOMAIN init : init[i] = x THEN init ELSE Append(init, x)

RECURSIVE OpsOf(_)
\* The operations of the blocks of bc, in chain order.
OpsOf(bc) == IF bc = <<>> THEN <<>> ELSE Head(bc).Ops \o OpsOf(Tail(bc))

\* The shape operations added in the chain bc, in chain order (none is ever
\* deleted: no code builds a delete operation).
ChainShapes(bc) == Distinct(OpsOf(bc))

\* C11: a successful call of MyCanvas.AddShape(validateNum, ...) returns the
\* shape hash, block hash and remaining ink the miner replied with, and the
\* miner was sent the caller's validateNum.
MyCanvasAddShapeRelays ==
  [][(canvas.fn = "AddShape" /\ canvas.pc = "called" /\ canvas'.pc = "done") =>
       /\ canvas'.out.err = "nil"
       /\ canvas'.out.shapeHash = AddShapeReply.ShapeHash
       /\ canvas'.out.blockHash = AddShapeReply.BlockHash
       /\ canvas'.out.inkRemaining = AddShapeReply.InkRemaining
       /\ asArgs.ValidateNum = canvas.validateNum]_vars

\* C12: when an art node has added a shape and calls DeleteShape with the
\* shape hash it got, the call succeeds and the miner's remaining ink grows by
\* the cost of the shape.
DeleteShapeRefunds ==
  [][(canvas = NoCall /\ canvas'.fn = "DeleteShape"
      /\ canvas'.args.ArtNodePK \in Owners(canvas'.args.shapeHash)) =>
       /\ canvas'.out.err = "nil"
       /\ \E i \in DOMAIN blockChain : \E j \in DOMAIN blockChain[i].Ops :
            /\ blockChain[i].Ops[j].OpSig = canvas'.args.shapeHash
            /\ minerInkRemain' = minerInkRemain + OpCost(blockChain[i].Ops[j])]_vars

\* C13: DeleteShape for a shape art node P added, called with another key Q,
\* fails with ShapeOwnerError; called with a hash of no shape on the chain it
\* fails with InvalidShapeHashError; the chain and the ink accounts stay as
\* they are; however many blocks were mined since the shape was added.
DeleteShapeChecksOwner ==
  [][(canvas = NoCall /\ canvas'.fn = "DeleteShape") =>
       LET args == canvas'.args
       IN  /\ (Owners(args.shapeHash) # {} /\ args.ArtNodePK \notin Owners(args.shapeHash))
                => canvas'.out.err = "ShapeOwnerError"
           /\ Owners(args.shapeHash) = {} => canvas'.out.err = "InvalidShapeHashError"
           /\ blockChain' = blockChain /\ store' = store]_vars

\* C14: what CloseCanvas hands the library to render holds, in chain order,
\* every shape operation added in a block of the current chain and not
\* deleted, however many no-op blocks were mined after the shapes.
CloseCanvasHasChainShapes ==
  [][(canvas = NoCall /\ canvas'.fn = "CloseCanvas") =>
       canvas'.out.html = Render(ChainShapes(blockChain))]_vars

\* C15: for the hash of a shape whose block is on the chain GetSvgString
\* returns the SVG string of the shape, also after further blocks are mined;
\* for a hash of no shape on the chain it returns InvalidShapeHashError.
GetSvgStringFindsChainShapes ==
  [][(canvas = NoCall /\ canvas'.fn = "GetSvgString") =>
       LET shapes == ChainShapes(blockChain)
           known == {i \in DOMAIN shapes : shapes[i].OpSig = canvas'.args}
       IN  IF known = {} THEN canvas'.out.err = "InvalidShapeHashError"
           ELSE /\ canvas'.out.err = "nil"
                /\ \E i \in known : canvas'.out.svgString = shapes[i].AppShape]_vars

\* The hash of the block b under the Nonce it stores.
StoredHash(b) == computeNonceSecretHash(blkToString(b), FormatInt(b.Nonce))

\* C16: for every block of the local chain (the first block, mined no-op
\* blocks, blocks of AddShape, blocks of adopted chains) the hash of the block
\* under its stored Nonce ends with at least D zeros, D being the op-block
\* difficulty if the block has operations and the no-op difficulty otherwise.
BlocksHaveProofOfWork ==
  \A i \in DOMAIN blockChain :
    hasNZeros(StoredHash(blockChain[i]),
              IF blockChain[i].Ops # <<>> THEN settings.PoWDifficultyOpBlock
              ELSE settings.PoWDifficultyNoOpBlock)

\* C17: every block the miner appends to its chain is eventually delivered to
\* the connected peer: the peer's SendBlockchain handler is eventually invoked
\* with a chain that holds the block (the connection stays up, goroutines are
\* scheduled fairly).
BlocksReachPeer ==
  \A n \in 1..MaxChain :
    (Len(blockChain) >= n) ~>
      (Len(blockChain) >= n /\ BlockId(blockChain[n]) \in peerHeard)

\* The pixels of the shape an operation adds.
OpPixels(op) == ShapePixels(CHOOSE s \in Paths : SvgStr(s) = op.AppShape)

\* The live shapes of the chain bc with the miner that owns each.
LiveShapes(bc) ==
  UNION {{[miner |-> bc[i].PubKeyMiner, pixels |-> OpPixels(bc[i].Ops[j])] :
            j \in DOMAIN bc[i].Ops} : i \in DOMAIN bc}

\* C18: in every chain the miner holds, chains adopted through SendBlockchain
\* included, two live shapes of distinct miners cover disjoint pixels (a chain
\* sent with an add over a live shape of another miner is not adopted).
LiveShapesDisjoint ==
  \A a, b \in LiveShapes(blockChain) :
    a.miner # b.miner => a.pixels \cap b.pixels = {}

\* The miner of block i of bc can pay, from what it mined less what it spent
\* in the blocks before i, for the operations of block i.
FundedAt(bc, i) ==
  LET before == totalInkSpentAndMinedByMiner(SubSeq(bc, 1, i - 1), bc[i].PubKeyMiner)
  IN  before.inkMined - before.inkSpent >= costOfOperations(bc[i].Ops)

\* C19: in every chain adopted through SendBlockchain the miner of each block
\* has, at the block's parent state, at least the ink the operations of the
\* block cost (a chain that spends ink before it is mined is rejected even if
\* the totals balance).
AdoptedChainsFunded ==
  sbPc = "assign" => \A i \in DOMAIN sbArg : FundedAt(sbArg, i)

\* C20: no operation is in the chain twice: over all blocks of the chain each
\* OpSig occurs in the Ops of at most one block, and once there, after any
\* sequence of AddShape calls (two calls with no no-op block between them and
\* two adds of the same shape included).
OperationsOccurOnce ==
  \A i, j \in DOMAIN blockChain :
    \A a \in DOMAIN blockChain[i].Ops : \A b \in DOMAIN blockChain[j].Ops :
      blockChain[i].Ops[a].OpSig = blockChain[j].Ops[b].OpSig => (i = j /\ a = b)

\* C21: a block in the chain is never changed: mining a no-op block or
\* executing AddShape leaves the fields of every block already in the chain,
\* its MinerInks, CanvasInks and CanvasOperations included, as they were.
BlocksNeverChange ==
  [][\A i \in DOMAIN blockChain :
       i \in DOMAIN blockChain' =>
         /\ blockChain'[i] = blockChain[i]
         /\ store'[blockChain'[i].ref] = store[blockChain[i].ref]]_vars

\* The errors with which the shape helper refuses a shape.
HelperErrors == {"InvalidShapeSvgStringError", "ShapeOverlapError", "InsufficientInkError"}

RefusedByLibrary(err) ==
  /\ canvas'.pc = "done" /\ canvas'.out.err = err
  /\ UNCHANGED <<netVars, asPc, asArgs, asLocal, blockChain, store>>

\* C26: a path of more than 128 bytes is rejected with
\* ShapeSvgStringTooLongError before any other check, with no request sent to
\* the miner and no block appended; a path of exactly 128 bytes is not
\* rejected as too long.
TooLongPathRefused ==
  [][(canvas = NoCall /\ canvas'.fn = "AddShape") =>
       /\ canvas'.bytes > 128 => RefusedByLibrary("ShapeSvgStringTooLongError")
       /\ canvas'.bytes = 128 =>
            (canvas'.pc = "done" => canvas'.out.err # "ShapeSvgStringTooLongError")]_vars

\* A path of 129 bytes with transparent fill and stroke was refused.
TooLongPathWasRefused ==
  /\ canvas # NoCall /\ canvas.fn = "AddShape" /\ canvas.pc = "done"
  /\ canvas.bytes = 129 /\ canvas.fill = "transparent" /\ canvas.stroke = "transparent"

\* C27 as it is stated: a request to add a shape whose fill and stroke are
\* both "transparent" is rejected with an invalid-shape error and puts no
\* operation or block on the chain.
TransparentShapeInvalid ==
  [][(canvas = NoCall /\ canvas'.fn = "AddShape"
      /\ canvas'.fill = "transparent" /\ canvas'.stroke = "transparent") =>
       RefusedByLibrary("InvalidShapeSvgStringError")]_vars

\* C27, corrected: a request to add a shape whose fill and stroke are both
\* "transparent" is rejected and puts no operation or block on the chain; the
\* error is the invalid-shape error if the path has at most 128 bytes and the
\* too-long error otherwise.
TransparentShapeRefused ==
  [][(canvas = NoCall /\ canvas'.fn = "AddShape"
      /\ canvas'.fill = "transparent" /\ canvas'.stroke = "transparent") =>
       RefusedByLibrary(IF canvas'.bytes <= 128 THEN "InvalidShapeSvgStringError"
                        ELSE "ShapeSvgStringTooLongError")]_vars

\* A path of 128 bytes with transparent fill and stroke was refused.
TransparentShapeWasRefused ==
  /\ canvas # NoCall /\ canvas.fn = "AddShape" /\ canvas.pc = "done"
  /\ canvas.bytes = 128 /\ canvas.fill = "transparent" /\ canvas.stroke = "transparent"
  /\ canvas.out.err = "InvalidShapeSvgStringError"

\* C25: Connect and GetInk succeed if and only if the key string the art node
\* supplies is the key string the miner was started with: on a match Connect
\* replies Valid = true with the miner's settings; on a mismatch both return
\* InvalidMinerPKError with the supplied key, Connect replies Valid = false and
\* OpenCanvas of the library returns an error and no canvas.
KeyDecidesConnectAndGetInk ==
  [][(canvas = NoCall /\ canvas'.fn \in {"Connect", "GetInk", "OpenCanvas"}) =>
       LET key == canvas'.args
           out == canvas'.out
           match == (key = myKeyPairInString)
       IN  /\ canvas'.fn = "Connect" =>
                IF match
                THEN out.err = "nil" /\ out.reply.Valid /\ out.reply.MinerNetSets = settings
                ELSE /\ out.err = "InvalidMinerPKError" /\ out.errKey = key
                     /\ ~out.reply.Valid
           /\ canvas'.fn = "GetInk" =>
                IF match THEN out.err = "nil"
                ELSE out.err = "InvalidMinerPKError" /\ out.errKey = key
           /\ (canvas'.fn = "OpenCanvas" /\ ~match) =>
                (out.err # "nil" /\ out.canvas = <<>>)]_vars

\* OpenCanvas was called with the miner's public key string and got no canvas.
OpenCanvasRefused ==
  /\ canvas # NoCall /\ canvas.fn = "OpenCanvas" /\ canvas.args = myPubKeyStr
  /\ canvas.out.canvas = <<>>

\* The task of miner m named task is in a call over the network, or waits
\* for the reply of one.
CallingOut(m, task) ==
  \/ task = "helperGetNodes" /\ netPc[m].mon = "rpc"
  \/ task = "connectToMiner" /\ netPc[m].cm = "call"
  \/ task = "handleMiner" /\ m = Self /\ netPc[m].hm = "run" /\ hmPc = "call"

\* C30: no task holds the lock of minersConnectedTo while it makes a call to
\* the registry or to a peer or waits for its reply.
NoLockAcrossCalls == \A m \in Miners : ~CallingOut(m, minersConnectedTo[m].lock)

\* The miner has fewer neighbours than the settings ask for.
BelowMinConnections ==
  Alive(Self) /\ minersConnectedTo[Self].currentNumNeighbours < MinNumMinerConnections

\* C22: whenever the miner runs handleMiner for a peer and has fewer
\* neighbours than MinNumMinerConnections, the monitor task eventually gets
\* the lock and asks the registry for nodes.
MonitorStaysLive ==
  (BelowMinConnections /\ netPc[Self].hm = "run") ~> (netPc[Self].mon = "rpc")

\* C23: once the miner has dialled the peer and called EstablishReverseRPC
\* on it, eventually both miners run handleMiner for one another.
HandshakeCompletes ==
  (netPc[Self].cm = "call") ~> (netPc[Self].hm = "run" /\ netPc[Peer].hm = "run")

\* The last call to the registry failed.
RegistryCallFailed == registry.err \in {"error", "unreachable"}

\* C24: a failed Register, HeartBeat or GetNodes, the registry out of reach
\* included, ends the process, and an ended process neither mines nor serves
\* art nodes.
RegistryFailureExits ==
  /\ [](RegistryCallFailed => crashed)
  /\ [][crashed => UNCHANGED <<blockChain, store, currInkMined, mainPc, asPc, canvas>>]_vars

\* A heartbeat failed on a miner that had mined a block, and the miner is gone.
HeartBeatFailedWhileMining ==
  /\ registry.call = "HeartBeat" /\ RegistryCallFailed /\ crashed
  /\ Len(blockChain) > 0

\* C31: no accepted update of the chain is lost: whatever goroutine writes
\* blockChain, the chain it leaves is at least as long as the one it found.
ChainNeverShrinks == [][Len(blockChain') >= Len(blockChain)]_vars

\* C32: validateBlockHashNonce accepts a block of a received chain exactly
\* when the hash of the block under its stored Nonce ends with the zeros its
\* kind asks for, whether or not the Nonce is the smallest that does.
AnyGoodNonceAccepted ==
  sbPc # "idle" =>
    \A i \in DOMAIN sbArg :
      validateBlockHashNonce(sbArg[i]).val
        <=> hasNZeros(StoredHash(sbArg[i]), KindDifficulty(sbArg[i]))

\* C33: every heartbeat is sent after a sleep of HeartBeat / k milliseconds
\* with 2 <= k <= 20, a time above 0 and below HeartBeat, and the heartbeat
\* task can send whatever the other tasks do, also while handleMiner keeps
\* the lock of minersConnectedTo.
HeartBeatsOnTime ==
  /\ registry.call = "HeartBeat" =>
        /\ \E k \in 2..20 : registry.slept * k = settings.HeartBeat * Millisecond
        /\ 0 < registry.slept /\ registry.slept < settings.HeartBeat * Millisecond
  /\ Alive(Self) => ENABLED SendHeartBeats

\* A heartbeat was sent and handleMiner holds the lock, with the monitor
\* waiting for it.
HeartBeatBesideHeldLock ==
  /\ registry.call = "HeartBeat" /\ registry.err = "nil"
  /\ minersConnectedTo[Self].lock = "handleMiner" /\ netPc[Self].mon = "lock"

\* C34: in a chain built by the miner's own mining and AddShape calls, every
\* operation stores the OpSig that validateBlockOpSigs recomputes for its
\* block, so that a peer's validateBlockOpSigs accepts every block.
OwnOpSigsValidate == \A i \in DOMAIN blockChain : validateBlockOpSigs(blockChain[i])

\* C35: the chain the miner holds starts at the genesis block of the
\* settings: the PrevHash of its first block is settings.GenesisBlockHash,
\* for the block the miner generates first and for every chain adopted from
\* a peer.
ChainRootedAtGenesis ==
  blockChain # <<>> => blockChain[1].PrevHash = settings.GenesisBlockHash

\* The hash blockHash is the genesis hash or the hash of a block of the chain.
KnownBlockHash(blockHash) ==
  \/ blockHash = settings.GenesisBlockHash
  \/ \E i \in DOMAIN blockChain : BlockHash(blockChain[i]) = blockHash

\* The hashes of the blocks of the chain whose PrevHash is blockHash.
ChildrenOf(blockHash) ==
  {BlockHash(blockChain[i]) : i \in {j \in DOMAIN blockChain : blockChain[j].PrevHash = blockHash}}

\* The elements of a sequence.
Range(seq) == {seq[i] : i \in DOMAIN seq}

\* C36: GetChildren answers InvalidBlockHashError only for a hash that is
\* neither the genesis hash nor the hash of a block of the chain; for those
\* hashes, the hash of the last block included, it answers without error
\* with the hashes of exactly the blocks whose PrevHash is the hash asked.
GetChildrenOfKnownBlocks ==
  [][(canvas = NoCall /\ canvas'.fn = "GetChildren") =>
       /\ canvas'.out.err = "InvalidBlockHashError" => ~KnownBlockHash(canvas'.args)
       /\ KnownBlockHash(canvas'.args) =>
            /\ canvas'.out.err = "nil"
            /\ Range(canvas'.out.blockHashes) = ChildrenOf(canvas'.args)]_vars

\* The OpSig of every operation of ops, in order.
OpSigsOf(ops) == [j \in DOMAIN ops |-> ops[j].OpSig]

\* C37: GetShapes asked with the hash of a block of the chain answers with
\* the OpSig of every operation of that block, in order; asked with any
\* other hash it answers with a result or InvalidBlockHashError; it never
\* faults.
GetShapesOfChainBlocks ==
  [][(canvas = NoCall /\ canvas'.fn = "GetShapes") =>
       IF \E i \in DOMAIN blockChain : BlockHash(blockChain[i]) = canvas'.args
       THEN /\ canvas'.out.err = "nil"
            /\ \E i \in DOMAIN blockChain :
                 /\ BlockHash(blockChain[i]) = canvas'.args
                 /\ canvas'.out.shapeHashes = OpSigsOf(blockChain[i].Ops)
       ELSE canvas'.out.err \in {"nil", "InvalidBlockHashError"}]_vars

\* C38: a request of an art node that arrives while the chain is empty
\* leaves the miner running.
EmptyChainRequestsAnswered == ~(crashed /\ blockChain = <<>>)

\* The number of times addr occurs in all.
Occurrences(all, addr) == Cardinality({i \in DOMAIN all : all[i] = addr})

\* C39: the address of a peer occurs at most once in the list all of a miner,
\* a miner starts at most one handleMiner for the address of a peer, and a
\* miner calls EstablishReverseRPC on a peer at most once, so that at most
\* two calls are exchanged between two miners.
HandshakeOnce ==
  \A m \in Miners :
    /\ Occurrences(minersConnectedTo[m].all, Other(m)) <= 1
    /\ netPc[m].handlers <= 1
    /\ netPc[m].calls <= 1

\* Both miners have called the other and started a handler, and a further
\* connectToMiner of this miner has found the peer in all and returned.
HandshakeDoneAndRepeated ==
  /\ \A m \in Miners :
       /\ Occurrences(minersConnectedTo[m].all, Other(m)) = 1
       /\ netPc[m].handlers = 1 /\ netPc[m].calls = 1
  /\ netPc[Self].returned

====
